---------------------------- MODULE Spec2Model ----------------------------
(***************************************************************************)
(* The RPC resilience layer of basepy (src/basepy/client.py): RateLimiter, *)
(* Cache, CircuitBreaker, retry_with_backoff and the BaseClient call path  *)
(* (_cached_call, _rpc_call, _rotate_rpc, _connect).                       *)
(*                                                                         *)
(* Every thread of the program is a small machine: pc[t] is its position,  *)
(* stack[t] the labels its pending calls return to, loc[t] its locals.     *)
(* A `with self._lock:` block whose body neither blocks nor calls out is   *)
(* one step; RateLimiter.acquire is split further, under an explicit lock. *)
(* time.time() reads the variable now, one unit being one second.          *)
(***************************************************************************)
EXTENDS Integers, Sequences, FiniteSets, TLC

(* ------------------------------ bounds --------------------------------- *)

\* Number of threads that may call concurrently.
NThreads == 2

\* The clock stops advancing here.
MaxTime == 3

\* Config.RATE_LIMIT_REQUESTS and Config.RATE_LIMIT_WINDOW, scaled down
\* (client.py:46-47 set 100 requests per 60 s).
RATE_LIMIT_REQUESTS == 2

RATE_LIMIT_WINDOW == 2

\* Config.CACHE_TTL, scaled down (client.py:54 sets 10 s).
CACHE_TTL == 2

\* Config.CIRCUIT_BREAKER_THRESHOLD and Config.CIRCUIT_BREAKER_TIMEOUT,
\* scaled down (client.py:50-51 set 5 failures and 60 s).
CIRCUIT_BREAKER_THRESHOLD == 2

CIRCUIT_BREAKER_TIMEOUT == 1

\* Number of configured endpoints, len(self.rpc_urls).
NEndpoints == 2

\* Number of public calls a behaviour may start.
MaxCalls == 2

\* Number of calls made on the Metrics object alone.
MaxOps == 3

\* The timeouts and the poll intervals, in seconds, that the callers of
\* wait_for_confirmation pass.
MaxTimeout == 1
MaxPoll == 1

\* The get_status calls of one wait_for_confirmation call are counted up to
\* this number.
MaxPolls == 2

\* The specification of failover: the number of public calls and the horizon
\* of the clock.
MaxReads == 3

MaxTimeFailover == 6

\* get_block_number calls made by one caller in a burst: more than the
\* rate limiter has tokens.
MaxBurst == 4

(* ----------------------------- constants ------------------------------- *)

\* Config.MAX_RETRIES and Config.RETRY_BACKOFF_FACTOR, the arguments of the
\* decorator of _rpc_call.
MAX_RETRIES == 3

RETRY_BACKOFF_FACTOR == 2

Threads == 1..NThreads

\* The endpoints, named by their position in rpc_urls.
Endpoints == 1..NEndpoints

\* Cache keys (fingerprints) and the values calls return.
Keys == {"k1", "k2", "k3"}

Values == {"v1", "v2"}

\* The public reads the callers make: get_block_number, which goes through
\* _cached_call under its fingerprint, and get_transaction_count of
\* 'pending', which calls _rpc_call directly.
Methods ==
    {[use_cache |-> TRUE, key |-> "k1", name |-> "get_block_number"],
     [use_cache |-> FALSE, key |-> "None", name |-> "get_transaction_count"]}

\* The names under which @track_performance records the public reads.
Tracked ==
    {"get_block_number", "get_transaction_count", "get_block", "get_base_fee",
     "get_balance", "is_connected", "get_chain_id", "get_l1_fee"}

None == "None"

\* No set recorded for a key.
NoEntry == [val |-> None, at |-> 0]

(* ------------------------------ state ---------------------------------- *)

VARIABLES
    now,            \* the wall clock read by time.time()
    pc,             \* pc[t]: the position of thread t
    stack,          \* stack[t]: return labels of the calls t is inside
    loc,            \* loc[t]: the locals of thread t
    tokens,         \* RateLimiter.tokens, times RATE_LIMIT_WINDOW
    last_update,    \* RateLimiter.last_update
    rlLock,         \* RateLimiter._lock: 0 when free, else the holder
    acquired,       \* times of the successful acquires of the last window
    cache,          \* Cache._cache: cache[k] is None when k is not a key
    timestamps,     \* Cache._timestamps
    lastSet,        \* per key, the last set since the last clear (history)
    state,          \* CircuitBreaker.state, per endpoint
    failure_count,  \* CircuitBreaker.failure_count, per endpoint
    last_failure_time, \* CircuitBreaker.last_failure_time (None: no entry)
    streak,         \* per endpoint, failed calls since the last success (history)
    cbLock,         \* CircuitBreaker._lock: 0 when free, else the holder
    current_rpc_index, \* BaseClient.current_rpc_index, as an endpoint
    connection_attempts, \* BaseClient.connection_attempts
    w3,             \* the endpoint BaseClient.w3 is connected to
    clLock,         \* BaseClient._lock: 0 when free, else the holder
    cache_hits,     \* Metrics.cache_hits
    cache_misses,   \* Metrics.cache_misses
    request_count,  \* Metrics.request_count, per method
    error_count,    \* Metrics.error_count, per method
    rpc_usage,      \* Metrics.rpc_usage, per endpoint
    circuit_breaker_trips, \* Metrics.circuit_breaker_trips
    mLock,          \* Metrics._lock: 0 when free, else the holder
    healthy,        \* healthy[u]: endpoint u answers (the environment)
    ncalls          \* public calls started so far

rlVars == <<tokens, last_update, rlLock, acquired>>

cacheVars == <<cache, timestamps, lastSet>>

cbVars == <<state, failure_count, last_failure_time, streak, cbLock>>

clVars == <<current_rpc_index, connection_attempts, w3, clLock>>

mVars == <<cache_hits, cache_misses, request_count, error_count, rpc_usage,
          circuit_breaker_trips, mLock>>

envVars == <<healthy, ncalls>>

restVars == <<clVars, mVars, envVars>>

vars == <<now, pc, stack, loc, rlVars, cacheVars, cbVars, restVars>>

\* The dictionary of health_check before it is filled in: connected, whether
\* it has the keys block_number and error, and status.
NoHealth ==
    [connected |-> FALSE, block_number |-> FALSE, status |-> "None",
     error |-> FALSE]

\* exc: the exception in flight, ret: the value returned, then the arguments
\* of the call in progress.
NoLocals ==
    [exc |-> None, ret |-> None,
     \* Cache.get / Cache.set: key, value
     key |-> None, val |-> None,
     \* CircuitBreaker.call: rpc_url, func
     url |-> 0, func |-> None,
     \* the public call: whether it goes through _cached_call, and whether
     \* the remote accepts the request ("good") or declines it ("bad")
     use_cache |-> FALSE, req |-> None,
     \* _cached_call: cached_value
     cached_value |-> None,
     \* retry_with_backoff: the wrapped func, attempt, last_exception,
     \* sleep_time
     wrapped |-> None, attempt |-> 0, last_exception |-> None, sleep_time |-> 0,
     \* _connect: idx
     idx |-> 0,
     \* _rpc_call: the exception e caught at line 506
     cause |-> None,
     \* history of the call in progress: whether the history of sets held a
     \* fresh entry when the cache was read, how often _cached_call ran func,
     \* tokens taken, transport calls sent, calls made by the retry wrapper,
     \* the sleeps it took, rotations started, and the hit and miss counters
     \* when the call began
     live |-> FALSE, execs |-> 0, taken |-> 0, sent |-> 0, tries |-> 0,
     sleeps |-> <<>>, rotations |-> 0, h0 |-> 0, m0 |-> 0,
     \* history of the rotations of the call in progress: whether one has
     \* succeeded, the active endpoint and index when the last one began,
     \* the endpoints its _connect has probed, and, if the active endpoint's
     \* circuit was open when it began, the other endpoints that have been
     \* reachable ever since
     rotated |-> FALSE, w0 |-> 0, i0 |-> 0, probed |-> {}, due |-> {},
     \* the argument of the public call and its full_transactions, whether
     \* the argument is malformed, and the cache, the circuits and the active
     \* index when the call began
     arg |-> None, full |-> FALSE, malformed |-> FALSE, pre |-> None,
     \* health_check: the dictionary health
     health |-> NoHealth,
     \* send_eth: the number of send_raw_transaction calls made
     broadcasts |-> 0,
     \* wait_for_confirmation: its arguments and locals; chain is what the
     \* chain holds for the transaction, polls the get_status calls made
     timeout |-> 0,
     poll_interval |-> 0,
     start_time |-> 0,
     status |-> "None",
     receipt |-> "None",
     chain |-> "None",
     polls |-> 0,
     \* history of CircuitBreaker.call: whether the call was let through
     \* while the circuit was half-open
     trial |-> FALSE,
     \* get_base_fee: the func handed to _cached_call when it is not a lambda
     \* around _rpc_call, and the fingerprint of the outer _cached_call while
     \* the inner one runs
     body |-> None, outer |-> None,
     \* history: the exception with which the retry wrapper last gave up
     failure |-> None,
     \* track_performance: func.__name__ and rpc_url; record_request: the
     \* count read by request_count[method] += 1
     method |-> None, rpc_url |-> 0, seen |-> 0,
     \* history of the _connect in progress or last run: for each url tried,
     \* in order, whether its probe returned ("ok"), failed ("failed") or was
     \* turned away by the circuit breaker ("skipped")
     probes |-> <<>>,
     \* the caller of get_metrics(): the statistics it was handed
     stats |-> None]

(* ---------------------------- control flow ----------------------------- *)

Goto(t, label) ==
    /\ pc' = [pc EXCEPT ![t] = label]
    /\ UNCHANGED stack

Call(t, callee, retlabel) ==
    /\ pc' = [pc EXCEPT ![t] = callee]
    /\ stack' = [stack EXCEPT ![t] = <<retlabel>> \o @]

Return(t) ==
    /\ pc' = [pc EXCEPT ![t] = Head(stack[t])]
    /\ stack' = [stack EXCEPT ![t] = Tail(@)]

Min(a, b) == IF a <= b THEN a ELSE b

(* ------------------------------- clock --------------------------------- *)

Tick ==
    /\ now < MaxTime
    /\ now' = now + 1
    /\ UNCHANGED <<pc, stack, loc, rlVars, cacheVars, cbVars, restVars>>

(* ---------------------------- RateLimiter ------------------------------ *)

\* tokens is kept multiplied by the window, so that the refill
\* (elapsed / window) * requests stays an integer.
Capacity == RATE_LIMIT_REQUESTS * RATE_LIMIT_WINDOW

\* A mutant of RLLockFree: no mutual exclusion.
RLLockIgnored == TRUE

\* `with self._lock:` can be entered.
RLLockFree == rlLock = 0

\* A mutant of Refill: the refill is not capped at the capacity.
RefillUncapped(t, elapsed) == t + elapsed * RATE_LIMIT_REQUESTS

\* min(self.requests, self.tokens + (elapsed / self.window) * self.requests)
Refill(t, elapsed) == Min(Capacity, t + elapsed * RATE_LIMIT_REQUESTS)

\* A mutant of HasToken: a token is granted while the bucket is not negative.
HasTokenLoose(t) == t >= 0

\* self.tokens >= 1
HasToken(t) == t >= RATE_LIMIT_WINDOW

\* The successes no older than one window before the success at time `at`.
Recent(times, at) ==
    SelectSeq(times, LAMBDA x : at - x <= RATE_LIMIT_WINDOW) \o <<at>>

\* acquire(): with self._lock
RLEnter(t) ==
    /\ pc[t] = "rl_lock"
    /\ RLLockFree
    /\ rlLock' = t
    /\ Goto(t, "rl_refill")
    /\ UNCHANGED <<now, loc, tokens, last_update, acquired, cacheVars, cbVars,
                 restVars>>

\* now = time.time(); elapsed = now - last_update; tokens = min(...);
\* last_update = now
RLRefill(t) ==
    /\ pc[t] = "rl_refill"
    /\ tokens' = Refill(tokens, now - last_update)
    /\ last_update' = now
    /\ Goto(t, "rl_check")
    /\ UNCHANGED <<now, loc, rlLock, acquired, cacheVars, cbVars, restVars>>

\* if self.tokens >= 1: ... else: raise RateLimitError (the lock is released)
RLCheck(t) ==
    /\ pc[t] = "rl_check"
    /\ IF HasToken(tokens)
       THEN /\ Goto(t, "rl_take")
            /\ UNCHANGED <<loc, rlLock>>
       ELSE /\ loc' = [loc EXCEPT ![t].exc = "RateLimitError"]
            /\ rlLock' = 0
            /\ Return(t)
    /\ UNCHANGED <<now, tokens, last_update, acquired, cacheVars, cbVars,
                 restVars>>

\* self.tokens -= 1; return True (the lock is released).  The call is dated
\* by its own reading of the clock, the local `now`, which last_update holds
\* while the lock is held.
RLTake(t) ==
    /\ pc[t] = "rl_take"
    /\ tokens' = tokens - RATE_LIMIT_WINDOW
    /\ acquired' = Recent(acquired, last_update)
    /\ loc' = [loc EXCEPT ![t].ret = "True", ![t].taken = @ + 1]
    /\ rlLock' = 0
    /\ Return(t)
    /\ UNCHANGED <<now, last_update, cacheVars, cbVars, restVars>>

RateLimiterStep(t) == RLEnter(t) \/ RLRefill(t) \/ RLCheck(t) \/ RLTake(t)

(* -------------------------------- Cache -------------------------------- *)

\* A mutant of Fresh: an entry is still served when its age equals the ttl.
FreshInclusive(k) == now - timestamps[k] <= CACHE_TTL

\* time.time() - self._timestamps[key] < self.ttl
Fresh(k) == now - timestamps[k] < CACHE_TTL

\* Cache.get(key), one `with self._lock:` block: the value when the key is
\* present and fresh; an expired entry is deleted and None returned.
CacheGet(t) ==
    /\ pc[t] = "cache_get"
    /\ LET k == loc[t].key
           live == lastSet[k].val # None /\ now - lastSet[k].at < CACHE_TTL
       IN
       IF cache[k] # None
       THEN IF Fresh(k)
            THEN /\ loc' = [loc EXCEPT ![t].ret = cache[k], ![t].live = live]
                 /\ UNCHANGED <<cache, timestamps>>
            ELSE /\ cache' = [cache EXCEPT ![k] = None]
                 /\ timestamps' = [timestamps EXCEPT ![k] = None]
                 /\ loc' = [loc EXCEPT ![t].ret = None, ![t].live = live]
       ELSE /\ loc' = [loc EXCEPT ![t].ret = None, ![t].live = live]
            /\ UNCHANGED <<cache, timestamps>>
    /\ Return(t)
    /\ UNCHANGED <<now, rlVars, lastSet, cbVars, restVars>>

\* Cache.set(key, value)
CacheSet(t) ==
    /\ pc[t] = "cache_set"
    /\ cache' = [cache EXCEPT ![loc[t].key] = loc[t].val]
    /\ timestamps' = [timestamps EXCEPT ![loc[t].key] = now]
    /\ lastSet' = [lastSet EXCEPT ![loc[t].key] = [val |-> loc[t].val, at |-> now]]
    /\ Return(t)
    /\ UNCHANGED <<now, loc, rlVars, cbVars, restVars>>

\* Cache.clear()
CacheClear(t) ==
    /\ pc[t] = "cache_clear"
    /\ cache' = [k \in Keys |-> None]
    /\ timestamps' = [k \in Keys |-> None]
    /\ lastSet' = [k \in Keys |-> NoEntry]
    /\ Return(t)
    /\ UNCHANGED <<now, loc, rlVars, cbVars, restVars>>

CacheStep(t) == CacheGet(t) \/ CacheSet(t) \/ CacheClear(t)

(* ---------------------------- CircuitBreaker --------------------------- *)

\* A mutant of TimedOut: the timeout counts as passed once it is reached.
TimedOutEarly(u) == now - last_failure_time[u] >= CIRCUIT_BREAKER_TIMEOUT

\* time.time() - self.last_failure_time[rpc_url] > self.timeout
TimedOut(u) == now - last_failure_time[u] > CIRCUIT_BREAKER_TIMEOUT

\* A mutant of Tripped: the circuit opens only above the threshold.
TrippedAbove(n) == n > CIRCUIT_BREAKER_THRESHOLD

\* self.failure_count[rpc_url] >= self.threshold
Tripped(n) == n >= CIRCUIT_BREAKER_THRESHOLD

\* A mutant of Circuit: the endpoints share one circuit.
CircuitShared(u) == 1

\* self.state[rpc_url], self.failure_count[rpc_url],
\* self.last_failure_time[rpc_url]: the circuit of an endpoint is the entry
\* of the three dictionaries under its url.
Circuit(u) == u

\* with self._lock: at the head of each of the three blocks of call(). The
\* lock is a threading.Lock: it is taken when free, by whoever asks.
CBAcquire(t) ==
    /\ pc[t] \in {"cb_enter", "cb_ok", "cb_fail"}
    /\ cbLock = 0
    /\ cbLock' = t
    /\ Goto(t, CASE pc[t] = "cb_enter" -> "cb_admit"
                  [] pc[t] = "cb_ok" -> "cb_success"
                  [] pc[t] = "cb_fail" -> "cb_failure")
    /\ UNCHANGED <<now, loc, rlVars, cacheVars, state, failure_count,
                   last_failure_time, streak, restVars>>

\* A mutant of Reject: the raise is inside the try block, and its except
\* block counts it.
RejectInsideTry(t) == Goto(t, "cb_fail")

\* raise CircuitBreakerOpenError: made before the try block, it leaves
\* call().
Reject(t) == Return(t)

\* call(), first block: an open circuit rejects the call unless its timeout
\* has passed, in which case it becomes half-open and the call goes on. The
\* lock is released when the block is left, by the raise as well.
CBAdmit(t) ==
    /\ pc[t] = "cb_admit"
    /\ cbLock' = 0
    /\ LET u == Circuit(loc[t].url) IN
       IF state[u] = "open"
       THEN IF TimedOut(u)
            THEN /\ state' = [state EXCEPT ![u] = "half-open"]
                 /\ Goto(t, "cb_func")
                 /\ loc' = [loc EXCEPT ![t].trial = TRUE]
            ELSE /\ loc' = [loc EXCEPT ![t].exc = "CircuitBreakerOpenError",
                                       ![t].trial = FALSE]
                 /\ Reject(t)
                 /\ UNCHANGED state
       ELSE /\ Goto(t, "cb_func")
            /\ loc' = [loc EXCEPT ![t].trial = (state[u] = "half-open")]
            /\ UNCHANGED state
    /\ UNCHANGED <<now, rlVars, cacheVars, failure_count,
                 last_failure_time, streak, restVars>>

\* call(), after func returned: a half-open circuit closes, the failure count
\* is reset, the result is returned.
CBSuccess(t) ==
    /\ pc[t] = "cb_success"
    /\ cbLock' = 0
    /\ LET u == Circuit(loc[t].url) IN
       /\ state' = [state EXCEPT ![u] = IF @ = "half-open" THEN "closed" ELSE @]
       /\ failure_count' = [failure_count EXCEPT ![u] = 0]
       /\ streak' = [streak EXCEPT ![u] = 0]
    /\ Return(t)
    /\ UNCHANGED <<now, loc, rlVars, cacheVars, last_failure_time, restVars>>

\* call(), after func raised: the failure is counted and dated, the circuit
\* opens at the threshold, the exception is raised again.
CBFailure(t) ==
    /\ pc[t] = "cb_failure"
    /\ cbLock' = 0
    /\ LET u == Circuit(loc[t].url) IN
       /\ failure_count' = [failure_count EXCEPT ![u] = @ + 1]
       /\ last_failure_time' = [last_failure_time EXCEPT ![u] = now]
       /\ state' = [state EXCEPT ![u] =
                        IF Tripped(failure_count[u] + 1) THEN "open" ELSE @]
       /\ streak' = [streak EXCEPT ![u] = @ + 1]
    /\ Return(t)
    /\ UNCHANGED <<now, loc, rlVars, cacheVars, restVars>>

\* result = func(*args, **kwargs), for a func of the caller's: it returns or
\* it raises.
CBFuncStub(t) ==
    /\ pc[t] = "cb_func"
    /\ loc[t].func = "stub"
    /\ \/ /\ loc' = [loc EXCEPT ![t].ret = "result"]
          /\ Goto(t, "cb_ok")
       \/ /\ loc' = [loc EXCEPT ![t].exc = "Exception"]
          /\ Goto(t, "cb_fail")
    /\ UNCHANGED <<now, rlVars, cacheVars, cbVars, restVars>>

CircuitBreakerStep(t) ==
    CBAcquire(t) \/ CBAdmit(t) \/ CBSuccess(t) \/ CBFailure(t)

(* -------------------------- retry_with_backoff ------------------------- *)

RECURSIVE Pow(_, _)
\* backoff_factor ** attempt
Pow(b, n) == IF n = 0 THEN 1 ELSE b * Pow(b, n - 1)

\* isinstance(e, cls) for the exception classes of basepy.exceptions: the
\* kinds of error are distinct classes, none of which derives from another
\* one of them.
IsInstance(e, cls) == e = cls

\* A mutant of Retryable: every exception is caught.
RetryableAll(e) == TRUE

\* except (ConnectionError, RPCError) as e
Retryable(e) == IsInstance(e, "ConnectionError") \/ IsInstance(e, "RPCError")

\* A mutant of MoreAttempts: one attempt more than max_retries.
MoreAttemptsInclusive(attempt) == attempt <= MAX_RETRIES

\* for attempt in range(max_retries): the loop goes on
MoreAttempts(attempt) == attempt < MAX_RETRIES

\* if attempt < max_retries - 1
SleepsAfter(attempt) == attempt < MAX_RETRIES - 1

\* A mutant of SleepTime: a constant backoff.
SleepTimeConstant(attempt) == 1

\* sleep_time = backoff_factor ** attempt
SleepTime(attempt) == Pow(RETRY_BACKOFF_FACTOR, attempt)

\* wrapper: last_exception = None, then the for loop starts
RWStart(t) ==
    /\ pc[t] = "rw_start"
    /\ loc' = [loc EXCEPT ![t].attempt = 0, ![t].last_exception = None]
    /\ Goto(t, "rw_loop")
    /\ UNCHANGED <<now, rlVars, cacheVars, cbVars, restVars>>

\* for attempt in range(max_retries): return func(*args, **kwargs);
\* after the loop: raise last_exception
RWLoop(t) ==
    /\ pc[t] = "rw_loop"
    /\ IF MoreAttempts(loc[t].attempt)
       THEN /\ loc' = [loc EXCEPT ![t].tries = @ + 1]
            /\ Call(t, IF loc[t].wrapped = "_rpc_call" THEN "rpc_start"
                                                       ELSE "stub_func",
                    "rw_ret")
       ELSE /\ LET e == IF loc[t].last_exception = None
                         THEN "TypeError" ELSE loc[t].last_exception
               IN loc' = [loc EXCEPT ![t].exc = e, ![t].failure = e]
            /\ Return(t)
    /\ UNCHANGED <<now, rlVars, cacheVars, cbVars, restVars>>

\* func returned (the result is returned), raised ConnectionError or RPCError
\* (kept in last_exception, with a sleep unless this was the last attempt),
\* or raised something else (which goes to the caller)
RWRet(t) ==
    /\ pc[t] = "rw_ret"
    /\ IF loc[t].exc = None
       THEN /\ Return(t)
            /\ UNCHANGED loc
       ELSE IF Retryable(loc[t].exc)
       THEN IF SleepsAfter(loc[t].attempt)
            THEN /\ loc' = [loc EXCEPT ![t].last_exception = loc[t].exc,
                                       ![t].exc = None,
                                       ![t].sleep_time = SleepTime(loc[t].attempt)]
                 /\ Goto(t, "rw_sleep")
            ELSE /\ loc' = [loc EXCEPT ![t].last_exception = loc[t].exc,
                                       ![t].exc = None,
                                       ![t].attempt = @ + 1]
                 /\ Goto(t, "rw_loop")
       ELSE /\ Return(t)
            /\ loc' = [loc EXCEPT ![t].failure = loc[t].exc]
    /\ UNCHANGED <<now, rlVars, cacheVars, cbVars, restVars>>

\* time.sleep(sleep_time), then the next attempt; the clock stays within the
\* horizon
RWSleepWithin(t, horizon) ==
    /\ pc[t] = "rw_sleep"
    /\ now + loc[t].sleep_time <= horizon
    /\ now' = now + loc[t].sleep_time
    /\ loc' = [loc EXCEPT ![t].sleeps = Append(@, loc[t].sleep_time),
                          ![t].sleep_time = 0,
                          ![t].attempt = @ + 1]
    /\ Goto(t, "rw_loop")
    /\ UNCHANGED <<rlVars, cacheVars, cbVars, restVars>>

\* func(*args, **kwargs), for a func of the caller's: it returns, or raises
\* one of the two exceptions the wrapper catches, or raises another one
StubFunc(t) ==
    /\ pc[t] = "stub_func"
    /\ \/ loc' = [loc EXCEPT ![t].ret = "result", ![t].sent = @ + 1]
       \/ \E e \in {"ConnectionError", "RPCError", "ValueError"} :
             loc' = [loc EXCEPT ![t].exc = e, ![t].cause = e, ![t].sent = @ + 1]
    /\ Return(t)
    /\ UNCHANGED <<now, rlVars, cacheVars, cbVars, restVars>>

RWSleep(t) == RWSleepWithin(t, MaxTime)

RWSleepLong(t) == RWSleepWithin(t, MaxTimeFailover)

RetryStep(t) == RWStart(t) \/ RWLoop(t) \/ RWRet(t) \/ RWSleep(t)

(* ------------------------- BaseClient._rpc_call ------------------------- *)

\* if self.connection_attempts >= 2
RotationDue(n) == n >= 2

\* self.rate_limiter.acquire()
RPCStart(t) ==
    /\ pc[t] = "rpc_start"
    /\ Call(t, "rl_lock", "rpc_acq")
    /\ UNCHANGED <<now, loc, rlVars, cacheVars, cbVars, restVars>>

\* acquire() returned, or raised RateLimitError, which leaves _rpc_call
RPCAcquired(t) ==
    /\ pc[t] = "rpc_acq"
    /\ IF loc[t].exc # None
       THEN /\ Return(t)
            /\ UNCHANGED loc
       ELSE /\ loc' = [loc EXCEPT ![t].ret = None]
            /\ Goto(t, "rpc_func")
    /\ UNCHANGED <<now, rlVars, cacheVars, cbVars, restVars>>

\* try: return func(*args, **kwargs): the transport call on self.w3.  A
\* healthy endpoint answers a good request and declines a bad one; an
\* unhealthy endpoint is not reached.
RPCFunc(t) ==
    /\ pc[t] = "rpc_func"
    /\ IF healthy[w3] /\ loc[t].req = "good"
       THEN /\ \E v \in Values :
                 loc' = [loc EXCEPT ![t].ret = v, ![t].sent = @ + 1]
            /\ Return(t)
       ELSE /\ loc' = [loc EXCEPT ![t].sent = @ + 1,
                                  ![t].url = w3,
                                  ![t].cause = IF healthy[w3] THEN "rejected"
                                                              ELSE "transient"]
            /\ Goto(t, "rpc_except")
    /\ UNCHANGED <<now, rlVars, cacheVars, cbVars, restVars>>

\* except Exception as e: if self.connection_attempts >= 2: self._rotate_rpc()
RPCExcept(t) ==
    /\ pc[t] = "rpc_except"
    /\ IF RotationDue(connection_attempts)
       THEN /\ loc' = [loc EXCEPT ![t].rotations = @ + 1]
            /\ Call(t, "rot_lock", "rpc_rotated")
       ELSE /\ Goto(t, "rpc_raise")
            /\ UNCHANGED loc
    /\ UNCHANGED <<now, rlVars, cacheVars, cbVars, restVars>>

\* _rotate_rpc() returned: self.connection_attempts = 0;
\* or raised: except ConnectionError: pass
RPCRotated(t) ==
    /\ pc[t] = "rpc_rotated"
    /\ connection_attempts' = IF loc[t].exc = None THEN 0 ELSE connection_attempts
    /\ loc' = [loc EXCEPT ![t].exc = None, ![t].ret = None,
                          ![t].rotated = @ \/ loc[t].exc = None]
    /\ Goto(t, "rpc_raise")
    /\ UNCHANGED <<now, rlVars, cacheVars, cbVars, current_rpc_index, w3, clLock,
                   mVars, envVars>>

\* self.connection_attempts += 1; raise RPCError(...) from e
RPCRaise(t) ==
    /\ pc[t] = "rpc_raise"
    /\ connection_attempts' = connection_attempts + 1
    /\ loc' = [loc EXCEPT ![t].exc = "RPCError"]
    /\ Return(t)
    /\ UNCHANGED <<now, rlVars, cacheVars, cbVars, current_rpc_index, w3, clLock,
                   mVars, envVars>>

RpcCallStep(t) ==
    \/ RPCStart(t)
    \/ RPCAcquired(t)
    \/ RPCFunc(t)
    \/ RPCExcept(t)
    \/ RPCRotated(t)
    \/ RPCRaise(t)

(* ------------------ BaseClient._rotate_rpc and _connect ----------------- *)

\* _rotate_rpc: with self._lock
RotLock(t) ==
    /\ pc[t] = "rot_lock"
    /\ clLock = 0
    /\ clLock' = t
    /\ loc' = [loc EXCEPT ![t].w0 = w3,
                          ![t].i0 = current_rpc_index,
                          ![t].probed = {},
                          ![t].due = IF state[w3] = "open"
                                     THEN {u \in Endpoints \ {w3} : healthy[u]}
                                     ELSE {}]
    /\ Goto(t, "rot_advance")
    /\ UNCHANGED <<now, rlVars, cacheVars, cbVars, current_rpc_index,
                   connection_attempts, w3, mVars, envVars>>

\* self.current_rpc_index = (self.current_rpc_index + 1) % len(self.rpc_urls);
\* self.w3 = self._connect()
RotAdvance(t) ==
    /\ pc[t] = "rot_advance"
    /\ current_rpc_index' = (current_rpc_index % NEndpoints) + 1
    /\ Call(t, "conn_start", "rot_connected")
    /\ UNCHANGED <<now, loc, rlVars, cacheVars, cbVars, connection_attempts, w3,
                   clLock, mVars, envVars>>

\* A mutant of RotRelease: the lock stays with the thread.
RotReleaseNever(t) == t

\* Leaving `with self._lock:` releases the lock, on return and on raise.
RotRelease(t) == 0

\* _connect() returned (self.w3 is assigned) or raised ConnectionError (which
\* is raised again); the lock is released
RotConnected(t) ==
    /\ pc[t] = "rot_connected"
    /\ w3' = IF loc[t].exc = None THEN loc[t].ret ELSE w3
    /\ clLock' = RotRelease(t)
    /\ Return(t)
    /\ UNCHANGED <<now, loc, rlVars, cacheVars, cbVars, current_rpc_index,
                   connection_attempts, mVars, envVars>>

\* A mutant of MoreUrls: the last url is never tried.
MoreUrlsButLast(idx) == idx < NEndpoints

\* for idx, url in enumerate(self.rpc_urls, 1): there is a url left
MoreUrls(idx) == idx <= NEndpoints

\* _connect: for idx, url in enumerate(self.rpc_urls, 1)
ConnStart(t) ==
    /\ pc[t] = "conn_start"
    /\ loc' = [loc EXCEPT ![t].idx = 1, ![t].probes = <<>>]
    /\ Goto(t, "conn_loop")
    /\ UNCHANGED <<now, rlVars, cacheVars, cbVars, restVars>>

\* result = self.circuit_breaker.call(url, test_connection); after the last
\* url: raise ConnectionError
ConnLoop(t) ==
    /\ pc[t] = "conn_loop"
    /\ IF MoreUrls(loc[t].idx)
       THEN /\ loc' = [loc EXCEPT ![t].url = loc[t].idx,
                                  ![t].func = "test_connection"]
            /\ Call(t, "cb_enter", "conn_called")
       ELSE /\ loc' = [loc EXCEPT ![t].exc = "ConnectionError"]
            /\ Return(t)
    /\ UNCHANGED <<now, rlVars, cacheVars, cbVars, restVars>>

\* test_connection: if not w3.is_connected(): raise ConnectionError; return w3
CBFuncProbe(t) ==
    /\ pc[t] = "cb_func"
    /\ loc[t].func = "test_connection"
    /\ IF healthy[loc[t].url]
       THEN /\ loc' = [loc EXCEPT ![t].ret = loc[t].url,
                                  ![t].probed = @ \cup {loc[t].url}]
            /\ Goto(t, "cb_ok")
       ELSE /\ loc' = [loc EXCEPT ![t].exc = "ConnectionError",
                                  ![t].probed = @ \cup {loc[t].url}]
            /\ Goto(t, "cb_fail")
    /\ UNCHANGED <<now, rlVars, cacheVars, cbVars, restVars>>

\* the call returned: self.current_rpc_index = idx - 1; return result;
\* or raised: except (ConnectionError, CircuitBreakerOpenError): continue
ConnCalled(t) ==
    /\ pc[t] = "conn_called"
    /\ IF loc[t].exc = None
       THEN /\ current_rpc_index' = loc[t].idx
            /\ Return(t)
            /\ loc' = [loc EXCEPT ![t].probes = Append(@, "ok")]
       ELSE /\ loc' = [loc EXCEPT
                         ![t].exc = None,
                         ![t].idx = @ + 1,
                         ![t].probes =
                            Append(@, IF loc[t].exc = "CircuitBreakerOpenError"
                                      THEN "skipped" ELSE "failed")]
            /\ Goto(t, "conn_loop")
            /\ UNCHANGED current_rpc_index
    /\ UNCHANGED <<now, rlVars, cacheVars, cbVars, connection_attempts, w3,
                   clLock, mVars, envVars>>

\* BaseClient(...): __init__ sets current_rpc_index = 0, connection_attempts
\* = 0 and calls self._connect()
Construct(t) ==
    /\ pc[t] = "new"
    /\ loc' = [loc EXCEPT ![t] = NoLocals]
    /\ Call(t, "conn_start", "init_connected")
    /\ UNCHANGED <<now, rlVars, cacheVars, cbVars, restVars>>

\* self.w3 = self._connect(): the client is there when _connect returned, and
\* the ConnectionError leaves the constructor when it raised
InitConnected(t) ==
    /\ pc[t] = "init_connected"
    /\ IF loc[t].exc = None
       THEN /\ w3' = loc[t].ret
            /\ Goto(t, "idle")
       ELSE /\ Goto(t, "unconstructed")
            /\ UNCHANGED w3
    /\ UNCHANGED <<now, loc, rlVars, cacheVars, cbVars, current_rpc_index,
                   connection_attempts, clLock, mVars, envVars>>

RotateStep(t) ==
    \/ RotLock(t)
    \/ RotAdvance(t)
    \/ RotConnected(t)
    \/ ConnStart(t)
    \/ ConnLoop(t)
    \/ CBFuncProbe(t)
    \/ ConnCalled(t)

(* ------------------- Metrics and track_performance --------------------- *)

\* A mutant of MLockFree: no mutual exclusion.
MLockIgnored == TRUE

\* `with self._lock:` of Metrics can be entered.
MLockFree == mLock = 0

\* track_performance, finally: rpc_url = self.w3.provider.endpoint_uri;
\* self.metrics.record_request(method=func.__name__, duration, success,
\* rpc_url). It is reached when func has returned and when it has raised;
\* the exception, if any, goes on to the caller afterwards.
TPFinally(t) ==
    /\ pc[t] = "tp_finally"
    /\ loc' = [loc EXCEPT ![t].rpc_url = w3]
    /\ Goto(t, "m_enter")
    /\ UNCHANGED <<now, rlVars, cacheVars, cbVars, restVars>>

\* record_request(): with self._lock, and the reading of the count in
\* self.request_count[method] += 1
MEnter(t) ==
    /\ pc[t] = "m_enter"
    /\ MLockFree
    /\ mLock' = t
    /\ loc' = [loc EXCEPT ![t].seen = request_count[loc[t].method]]
    /\ Goto(t, "m_write")
    /\ UNCHANGED <<now, rlVars, cacheVars, cbVars, clVars, envVars,
                   cache_hits, cache_misses, request_count, error_count,
                   rpc_usage, circuit_breaker_trips>>

\* self.request_count[method] += 1, the writing of the count;
\* self.rpc_usage[rpc_url] += 1; if not success: self.error_count[method]
\* += 1 (the lock is released).  success is False when func raised.
MWrite(t) ==
    /\ pc[t] = "m_write"
    /\ LET m == loc[t].method IN
       /\ request_count' = [request_count EXCEPT ![m] = loc[t].seen + 1]
       /\ error_count' = [error_count EXCEPT ![m] =
                             IF loc[t].exc # None THEN @ + 1 ELSE @]
    /\ rpc_usage' = [rpc_usage EXCEPT ![loc[t].rpc_url] = @ + 1]
    /\ mLock' = 0
    /\ Return(t)
    /\ UNCHANGED <<now, loc, rlVars, cacheVars, cbVars, clVars, envVars,
                   cache_hits, cache_misses, circuit_breaker_trips>>

TrackStep(t) == TPFinally(t) \/ MEnter(t) \/ MWrite(t)

\* self.cache_hits / (self.cache_hits + self.cache_misses) if
\* (self.cache_hits + self.cache_misses) > 0 else 0, as a fraction.
HitRate(hits, misses) ==
    IF hits + misses > 0
    THEN [num |-> hits, den |-> hits + misses]
    ELSE [num |-> 0, den |-> 1]

\* record_cache_hit() and record_cache_miss(), called on the Metrics object.
MHit(t) ==
    /\ pc[t] = "m_hit"
    /\ MLockFree
    /\ cache_hits' = cache_hits + 1
    /\ Return(t)
    /\ UNCHANGED <<now, loc, rlVars, cacheVars, cbVars, clVars, envVars,
                   cache_misses, request_count, error_count, rpc_usage,
                   circuit_breaker_trips, mLock>>

MMiss(t) ==
    /\ pc[t] = "m_miss"
    /\ MLockFree
    /\ cache_misses' = cache_misses + 1
    /\ Return(t)
    /\ UNCHANGED <<now, loc, rlVars, cacheVars, cbVars, clVars, envVars,
                   cache_hits, request_count, error_count, rpc_usage,
                   circuit_breaker_trips, mLock>>

\* get_stats(), which get_metrics() returns: the counters, read under the
\* lock.
GetStats ==
    [requests |-> request_count,
     errors |-> error_count,
     cache_hit_rate |-> HitRate(cache_hits, cache_misses),
     rpc_usage |-> rpc_usage,
     circuit_breaker_trips |-> circuit_breaker_trips]

\* get_stats(): the statistics are put together under the lock.
MStats(t) ==
    /\ pc[t] = "m_stats"
    /\ MLockFree
    /\ loc' = [loc EXCEPT ![t].stats = GetStats]
    /\ Return(t)
    /\ UNCHANGED <<now, rlVars, cacheVars, cbVars, restVars>>

\* reset(): with self._lock
MReset(t) ==
    /\ pc[t] = "m_reset"
    /\ MLockFree
    /\ mLock' = t
    /\ Goto(t, "m_reset_counts")
    /\ UNCHANGED <<now, loc, rlVars, cacheVars, cbVars, clVars, envVars,
                   cache_hits, cache_misses, request_count, error_count,
                   rpc_usage, circuit_breaker_trips>>

\* self.request_count = defaultdict(int); self.error_count = defaultdict(int)
MResetCounts(t) ==
    /\ pc[t] = "m_reset_counts"
    /\ request_count' = [m \in Tracked |-> 0]
    /\ error_count' = [m \in Tracked |-> 0]
    /\ Goto(t, "m_reset_rest")
    /\ UNCHANGED <<now, loc, rlVars, cacheVars, cbVars, clVars, envVars,
                   cache_hits, cache_misses, rpc_usage,
                   circuit_breaker_trips, mLock>>

\* self.rpc_usage = defaultdict(int); self.cache_hits = 0;
\* self.cache_misses = 0; self.circuit_breaker_trips = 0, and the lock is
\* released.
MResetRest(t) ==
    /\ pc[t] = "m_reset_rest"
    /\ rpc_usage' = [u \in Endpoints |-> 0]
    /\ cache_hits' = 0
    /\ cache_misses' = 0
    /\ circuit_breaker_trips' = 0
    /\ mLock' = 0
    /\ Return(t)
    /\ UNCHANGED <<now, loc, rlVars, cacheVars, cbVars, clVars, envVars,
                   request_count, error_count>>

MetricsStep(t) ==
    MStats(t) \/ MReset(t) \/ MResetCounts(t) \/ MResetRest(t)

\* A call of a public method decorated with @track_performance: func runs,
\* then the finally clause of the wrapper, then the caller goes on.
CallTracked(t, callee, retlabel) ==
    /\ pc' = [pc EXCEPT ![t] = callee]
    /\ stack' = [stack EXCEPT ![t] = <<"tp_finally", retlabel>> \o @]

(* ------------------------ BaseClient._cached_call ----------------------- *)

\* A mutant of IsHit: a cached value is never taken for a hit.
IsHitNever(v) == FALSE

\* if cached_value is not None
IsHit(v) == v # None

\* cache_key = Cache.make_key(...); cached_value = self.cache.get(cache_key)
CCStart(t) ==
    /\ pc[t] = "cc_start"
    /\ Call(t, "cache_get", "cc_got")
    /\ UNCHANGED <<now, loc, rlVars, cacheVars, cbVars, restVars>>

\* if cached_value is not None: record_cache_hit(); return cached_value;
\* else record_cache_miss(). Either bumps its counter under the Metrics lock.
CCGot(t) ==
    /\ pc[t] = "cc_got"
    /\ MLockFree
    /\ loc' = [loc EXCEPT ![t].cached_value = loc[t].ret]
    /\ IF IsHit(loc[t].ret)
       THEN /\ cache_hits' = cache_hits + 1
            /\ Return(t)
            /\ UNCHANGED cache_misses
       ELSE /\ cache_misses' = cache_misses + 1
            /\ Goto(t, "cc_exec")
            /\ UNCHANGED cache_hits
    /\ UNCHANGED <<now, rlVars, cacheVars, cbVars, clVars, envVars,
                   request_count, error_count, rpc_usage,
                   circuit_breaker_trips, mLock>>

\* result = func(): the closure of the public method, which calls _rpc_call
CCExec(t) ==
    /\ pc[t] = "cc_exec"
    /\ loc' = [loc EXCEPT ![t].execs = @ + 1]
    /\ Call(t, IF loc[t].body = "_get_base_fee" THEN "bf_try"
               ELSE IF loc[t].body = "_get_chain_id" THEN "ci_func"
               ELSE "rw_start",
            "cc_ran")
    /\ UNCHANGED <<now, rlVars, cacheVars, cbVars, restVars>>

\* func raised (the exception leaves _cached_call), or returned:
\* self.cache.set(cache_key, result)
CCRan(t) ==
    /\ pc[t] = "cc_ran"
    /\ IF loc[t].exc # None
       THEN /\ Return(t)
            /\ UNCHANGED loc
       ELSE /\ loc' = [loc EXCEPT ![t].val = loc[t].ret]
            /\ Call(t, "cache_set", "cc_stored")
    /\ UNCHANGED <<now, rlVars, cacheVars, cbVars, restVars>>

\* return result
CCStored(t) ==
    /\ pc[t] = "cc_stored"
    /\ Return(t)
    /\ UNCHANGED <<now, loc, rlVars, cacheVars, cbVars, restVars>>

CachedCallStep(t) ==
    CCStart(t) \/ CCGot(t) \/ CCExec(t) \/ CCRan(t) \/ CCStored(t)

(* ---------------------------- the environment --------------------------- *)

\* An endpoint goes down or comes back.  The program observes the endpoints
\* only in its transport calls and its connectivity probes, so that a change
\* is placed right before one of them.
EnvChange ==
    /\ \E t \in Threads :
          pc[t] \in {"rpc_func", "cb_func", "ic_call", "ci_func", "se_nonce",
                    "se_gas", "se_send", "gs_receipt", "gs_get", "w_receipt",
                    "w_failed"}
    /\ \E u \in Endpoints :
          /\ healthy' = [healthy EXCEPT ![u] = ~@]
          /\ loc' = [t \in Threads |-> [loc[t] EXCEPT !.due = @ \ {u}]]
    /\ UNCHANGED <<now, pc, stack, rlVars, cacheVars, cbVars, clVars, mVars,
                   ncalls>>

(* ------------------------- callers of the units ------------------------ *)

\* A thread calls cache.get(k), cache.set(k, v) or cache.clear().
CallCacheGet(t) ==
    /\ pc[t] = "idle"
    /\ \E k \in Keys : loc' = [loc EXCEPT ![t] = [NoLocals EXCEPT !.key = k]]
    /\ Call(t, "cache_get", "done")
    /\ UNCHANGED <<now, rlVars, cacheVars, cbVars, restVars>>

CallCacheSet(t) ==
    /\ pc[t] = "idle"
    /\ \E k \in Keys, v \in Values :
          loc' = [loc EXCEPT ![t] = [NoLocals EXCEPT !.key = k, !.val = v]]
    /\ Call(t, "cache_set", "done")
    /\ UNCHANGED <<now, rlVars, cacheVars, cbVars, restVars>>

CallCacheClear(t) ==
    /\ pc[t] = "idle"
    /\ loc' = [loc EXCEPT ![t] = NoLocals]
    /\ Call(t, "cache_clear", "done")
    /\ UNCHANGED <<now, rlVars, cacheVars, cbVars, restVars>>

\* A thread calls circuit_breaker.call(u, func).
CallBreakerOn(t, u) ==
    /\ pc[t] = "idle"
    /\ loc' = [loc EXCEPT ![t] = [NoLocals EXCEPT !.url = u, !.func = "stub"]]
    /\ Call(t, "cb_enter", "done")
    /\ UNCHANGED <<now, rlVars, cacheVars, cbVars, restVars>>

CallBreaker(t) == \E u \in Endpoints : CallBreakerOn(t, u)

\* A thread calls rate_limiter.acquire().
CallAcquire(t) ==
    /\ pc[t] = "idle"
    /\ loc' = [loc EXCEPT ![t] = NoLocals]
    /\ Call(t, "rl_lock", "done")
    /\ UNCHANGED <<now, rlVars, cacheVars, cbVars, restVars>>

\* A thread calls the retry wrapper around a func of its own.
CallWrapper(t) ==
    /\ pc[t] = "idle"
    /\ loc' = [loc EXCEPT ![t] = [NoLocals EXCEPT !.wrapped = "stub"]]
    /\ Call(t, "rw_start", "done")
    /\ UNCHANGED <<now, rlVars, cacheVars, cbVars, restVars>>

\* A thread calls a public read of the client: one that goes through
\* _cached_call (get_block_number, get_balance, ...: use_cache) or one that
\* calls _rpc_call directly (get_transaction_count of 'pending', ...).
PublicCallOf(t, ms) ==
    /\ pc[t] = "idle"
    /\ ncalls < MaxCalls
    /\ ncalls' = ncalls + 1
    /\ \E m \in ms, r \in {"good", "bad"} :
          /\ loc' = [loc EXCEPT ![t] =
                        [NoLocals EXCEPT !.use_cache = m.use_cache,
                                         !.key = m.key,
                                         !.req = r,
                                         !.wrapped = "_rpc_call",
                                         !.h0 = cache_hits,
                                         !.m0 = cache_misses,
                                         !.method = m.name]]
          /\ CallTracked(t, IF m.use_cache THEN "cc_start" ELSE "rw_start",
                         "done")
    /\ UNCHANGED <<now, rlVars, cacheVars, cbVars, clVars, mVars, healthy>>

PublicCall(t) == PublicCallOf(t, Methods)

\* A thread calls a public read that goes through _cached_call.
CachedRead(t) == PublicCallOf(t, {m \in Methods : m.use_cache})

\* A thread calls get_block_number(): self._cached_call('get_block_number',
\* lambda: self._rpc_call(lambda: self.w3.eth.block_number)), under
\* @track_performance.
BlockNumberCall(t) ==
    /\ pc[t] = "idle"
    /\ ncalls < MaxBurst
    /\ ncalls' = ncalls + 1
    /\ loc' = [loc EXCEPT ![t] =
                  [NoLocals EXCEPT !.use_cache = TRUE,
                                   !.key = "k1",
                                   !.req = "good",
                                   !.wrapped = "_rpc_call",
                                   !.h0 = cache_hits,
                                   !.m0 = cache_misses,
                                   !.method = "get_block_number"]]
    /\ CallTracked(t, "cc_start", "done")
    /\ UNCHANGED <<now, rlVars, cacheVars, cbVars, clVars, mVars, healthy>>

\* A thread calls client.get_metrics(), client.reset_metrics(),
\* client.clear_cache() or client._rotate_rpc().
CallGetMetrics(t) ==
    /\ pc[t] = "idle"
    /\ ncalls < MaxCalls
    /\ ncalls' = ncalls + 1
    /\ loc' = [loc EXCEPT ![t] = NoLocals]
    /\ Call(t, "m_stats", "done")
    /\ UNCHANGED <<now, rlVars, cacheVars, cbVars, clVars, mVars, healthy>>

CallResetMetrics(t) ==
    /\ pc[t] = "idle"
    /\ ncalls < MaxCalls
    /\ ncalls' = ncalls + 1
    /\ loc' = [loc EXCEPT ![t] = NoLocals]
    /\ Call(t, "m_reset", "done")
    /\ UNCHANGED <<now, rlVars, cacheVars, cbVars, clVars, mVars, healthy>>

CallClearCache(t) ==
    /\ pc[t] = "idle"
    /\ ncalls < MaxCalls
    /\ ncalls' = ncalls + 1
    /\ loc' = [loc EXCEPT ![t] = NoLocals]
    /\ Call(t, "cache_clear", "done")
    /\ UNCHANGED <<now, rlVars, cacheVars, cbVars, clVars, mVars, healthy>>

CallRotate(t) ==
    /\ pc[t] = "idle"
    /\ ncalls < MaxCalls
    /\ ncalls' = ncalls + 1
    /\ loc' = [loc EXCEPT ![t] = NoLocals]
    /\ Call(t, "rot_lock", "done")
    /\ UNCHANGED <<now, rlVars, cacheVars, cbVars, clVars, mVars, healthy>>

\* A thread calls a method decorated with @track_performance, whatever its
\* body: wrapper(self, ...) under the name of the method.
CallDecorated(t) ==
    /\ pc[t] = "idle"
    /\ ncalls < MaxCalls
    /\ ncalls' = ncalls + 1
    /\ \E m \in {mm.name : mm \in Methods} :
          loc' = [loc EXCEPT ![t] = [NoLocals EXCEPT !.method = m]]
    /\ CallTracked(t, "tp_func", "done")
    /\ UNCHANGED <<now, rlVars, cacheVars, cbVars, clVars, mVars, healthy>>

\* try: result = func(self, *args, **kwargs), for the body of any decorated
\* method: it returns or it raises.
TPFuncStub(t) ==
    /\ pc[t] = "tp_func"
    /\ \/ loc' = [loc EXCEPT ![t].ret = "result"]
       \/ loc' = [loc EXCEPT ![t].exc = "Exception"]
    /\ Return(t)
    /\ UNCHANGED <<now, rlVars, cacheVars, cbVars, restVars>>

(* ------------- BaseClient.get_block, get_balance: validation ----------- *)

\* Block identifiers the callers pass: 'latest'; two strings that name no
\* block, one of which begins with 0x; and a negative number.
BlockIdentifiers ==
    {[type |-> "str", text |-> "latest"],
     [type |-> "str", text |-> "0xzz"],
     [type |-> "str", text |-> "block"],
     [type |-> "int", text |-> "-1"]}

\* Addresses the callers pass: a 42 character hexadecimal address; strings
\* without the 0x prefix, too short, and of 42 characters that are no
\* hexadecimal digits; and a number.
Addresses ==
    {[type |-> "str", text |-> "0xaddress"],
     [type |-> "str", text |-> "address"],
     [type |-> "str", text |-> "0xshort"],
     [type |-> "str", text |-> "0xnothex"],
     [type |-> "int", text |-> "7"]}

\* What the node takes for a block identifier, and for an address.
WellFormedBlock(b) == b.type = "str" /\ b.text = "latest"

WellFormedAddress(a) == a.type = "str" /\ a.text = "0xaddress"

\* s.startswith('0x')
StartsWith0x(s) == s \in {"0xzz", "0xaddress", "0xshort", "0xnothex"}

\* len(address) == 42
Len42(s) == s \in {"0xaddress", "0xnothex"}

\* Web3.to_checksum_address(normalized) returns (it raises ValueError on
\* anything but 40 hexadecimal digits after 0x).
ChecksumReturns(s) == s = "0xaddress"

\* get_block: if isinstance(block_identifier, str): if block_identifier not
\* in valid_strings and not block_identifier.startswith('0x'): raise
InvalidBlockIdentifier(b) ==
    /\ b.type = "str"
    /\ b.text \notin {"latest", "earliest", "pending"}
    /\ ~StartsWith0x(b.text)

\* _validate_address raises ValidationError: the address is no string, has
\* no 0x prefix, is not 42 characters long, or to_checksum_address raised
\* ValueError.
InvalidAddress(a) ==
    \/ a.type # "str"
    \/ ~StartsWith0x(a.text)
    \/ ~Len42(a.text)
    \/ ~ChecksumReturns(a.text)

\* The fingerprint make_key gives a cached get_block call, and a get_balance
\* call of the address.
BlockKey(b) == IF b.text = "latest" THEN "k2" ELSE "k3"

AddressKey == "k1"

\* The cache, the circuits and the active endpoint as a public call finds
\* them.
Before ==
    [cache |-> cache, lastSet |-> lastSet, state |-> state,
     failure_count |-> failure_count,
     current_rpc_index |-> current_rpc_index, w3 |-> w3]

\* A thread calls get_block(block_identifier, full_transactions), under
\* @track_performance.
GetBlockCall(t) ==
    /\ pc[t] = "idle"
    /\ ncalls < MaxCalls
    /\ ncalls' = ncalls + 1
    /\ \E b \in BlockIdentifiers, f \in BOOLEAN :
          loc' = [loc EXCEPT ![t] =
                     [NoLocals EXCEPT !.method = "get_block",
                                      !.arg = b,
                                      !.full = f,
                                      !.malformed = ~WellFormedBlock(b),
                                      !.pre = Before,
                                      !.h0 = cache_hits,
                                      !.m0 = cache_misses]]
    /\ CallTracked(t, "gb_start", "done")
    /\ UNCHANGED <<now, rlVars, cacheVars, cbVars, clVars, mVars, healthy>>

\* get_block: the identifier is validated; then _cached_call('get_block',
\* _get_block, ...) if not full_transactions, else _get_block(), which is
\* self._rpc_call(lambda: ...get_block(block_identifier, ...)).  The lambda
\* raises on an identifier that names no block.
GBStart(t) ==
    /\ pc[t] = "gb_start"
    /\ IF InvalidBlockIdentifier(loc[t].arg)
       THEN /\ loc' = [loc EXCEPT ![t].exc = "ValidationError"]
            /\ Return(t)
       ELSE /\ loc' = [loc EXCEPT
                         ![t].use_cache = ~loc[t].full,
                         ![t].key = IF loc[t].full THEN None
                                    ELSE BlockKey(loc[t].arg),
                         ![t].req = IF WellFormedBlock(loc[t].arg) THEN "good"
                                    ELSE "bad",
                         ![t].wrapped = "_rpc_call"]
            /\ Goto(t, IF loc[t].full THEN "rw_start" ELSE "cc_start")
    /\ UNCHANGED <<now, rlVars, cacheVars, cbVars, restVars>>

\* A thread calls get_balance(address), under @track_performance.
GetBalanceCall(t) ==
    /\ pc[t] = "idle"
    /\ ncalls < MaxCalls
    /\ ncalls' = ncalls + 1
    /\ \E a \in Addresses :
          loc' = [loc EXCEPT ![t] =
                     [NoLocals EXCEPT !.method = "get_balance",
                                      !.arg = a,
                                      !.malformed = ~WellFormedAddress(a),
                                      !.pre = Before,
                                      !.h0 = cache_hits,
                                      !.m0 = cache_misses]]
    /\ CallTracked(t, "bal_start", "done")
    /\ UNCHANGED <<now, rlVars, cacheVars, cbVars, clVars, mVars, healthy>>

\* get_balance: checksum_address = self._validate_address(address); return
\* self._cached_call('get_balance', _get_balance, checksum_address)
BalStart(t) ==
    /\ pc[t] = "bal_start"
    /\ IF InvalidAddress(loc[t].arg)
       THEN /\ loc' = [loc EXCEPT ![t].exc = "ValidationError"]
            /\ Return(t)
       ELSE /\ loc' = [loc EXCEPT ![t].use_cache = TRUE,
                                  ![t].key = AddressKey,
                                  ![t].req = "good",
                                  ![t].wrapped = "_rpc_call"]
            /\ Goto(t, "cc_start")
    /\ UNCHANGED <<now, rlVars, cacheVars, cbVars, restVars>>

ValidatedCallStep(t) ==
    GetBlockCall(t) \/ GBStart(t) \/ GetBalanceCall(t) \/ BalStart(t)

(* -------------- BaseClient.get_l1_fee, Transaction.send_eth ------------ *)

\* The data the callers pass to get_l1_fee: bytes, a hexadecimal string, a
\* string that is none, and a number.
CallData ==
    {[type |-> "bytes", text |-> "ab"],
     [type |-> "str", text |-> "0xab"],
     [type |-> "str", text |-> "zz"],
     [type |-> "int", text |-> "7"]}

\* try: if isinstance(data, str): data = bytes.fromhex(...) (ValueError on
\* anything but hexadecimal digits); elif not isinstance(data, bytes): raise
\* ValidationError
InvalidData(d) ==
    \/ d.type = "str" /\ d.text \notin {"0xab"}
    \/ d.type \notin {"str", "bytes"}

\* A thread calls get_l1_fee(data), under @track_performance.
GetL1FeeCall(t) ==
    /\ pc[t] = "idle"
    /\ ncalls < MaxCalls
    /\ ncalls' = ncalls + 1
    /\ \E d \in CallData :
          loc' = [loc EXCEPT ![t] =
                     [NoLocals EXCEPT !.method = "get_l1_fee",
                                      !.arg = d,
                                      !.malformed = InvalidData(d),
                                      !.pre = Before,
                                      !.h0 = cache_hits,
                                      !.m0 = cache_misses]]
    /\ CallTracked(t, "l1_start", "done")
    /\ UNCHANGED <<now, rlVars, cacheVars, cbVars, clVars, mVars, healthy>>

\* get_l1_fee: the data is validated; return _get_l1_fee(), which is try:
\* return self._rpc_call(lambda: oracle.functions.getL1Fee(data).call())
L1Start(t) ==
    /\ pc[t] = "l1_start"
    /\ IF InvalidData(loc[t].arg)
       THEN /\ loc' = [loc EXCEPT ![t].exc = "ValidationError"]
            /\ Return(t)
       ELSE /\ loc' = [loc EXCEPT ![t].req = "good",
                                  ![t].wrapped = "_rpc_call"]
            /\ Call(t, "rw_start", "l1_ran")
    /\ UNCHANGED <<now, rlVars, cacheVars, cbVars, restVars>>

\* _rpc_call returned; or except Exception as e: raise RPCError(...) from e
L1Ran(t) ==
    /\ pc[t] = "l1_ran"
    /\ loc' = [loc EXCEPT ![t].exc = IF @ = None THEN None ELSE "RPCError"]
    /\ Return(t)
    /\ UNCHANGED <<now, rlVars, cacheVars, cbVars, restVars>>

\* The fingerprint make_key gives get_chain_id.
ChainIdKey == "k1"

\* A thread calls Transaction(client, wallet).send_eth(to_address, amount)
\* with a wallet or with none.
SendEthCall(t) ==
    /\ pc[t] = "idle"
    /\ ncalls < MaxCalls
    /\ ncalls' = ncalls + 1
    /\ \E w \in {"wallet", "None"} :
          loc' = [loc EXCEPT ![t] =
                     [NoLocals EXCEPT !.method = "send_eth",
                                      !.arg = [type |-> "wallet", text |-> w],
                                      !.pre = Before,
                                      !.h0 = cache_hits,
                                      !.m0 = cache_misses]]
    /\ Call(t, "se_start", "done")
    /\ UNCHANGED <<now, rlVars, cacheVars, cbVars, clVars, mVars, healthy>>

\* self._require_wallet(): raise TransactionError if self.wallet is None
SEStart(t) ==
    /\ pc[t] = "se_start"
    /\ IF loc[t].arg.text = "None"
       THEN /\ loc' = [loc EXCEPT ![t].exc = "TransactionError"]
            /\ Return(t)
       ELSE /\ Goto(t, "se_nonce")
            /\ UNCHANGED loc
    /\ UNCHANGED <<now, rlVars, cacheVars, cbVars, restVars>>

\* A call made on self.client.w3 directly: it returns if the endpoint is
\* reached, and raises otherwise, which takes send_eth to its except block.
SEDirect(t, from, to) ==
    /\ pc[t] = from
    /\ Goto(t, IF healthy[w3] THEN to ELSE "se_except")
    /\ loc' = [loc EXCEPT ![t].sent = @ + 1]
    /\ UNCHANGED <<now, rlVars, cacheVars, cbVars, restVars>>

\* nonce = self.client.w3.eth.get_transaction_count(self.wallet.address)
SENonce(t) == SEDirect(t, "se_nonce", "se_gas")

\* 'gasPrice': self.client.w3.eth.gas_price
SEGasPrice(t) == SEDirect(t, "se_gas", "se_chain")

\* 'chainId': self.client.get_chain_id(), a method under @track_performance:
\* return self._cached_call('get_chain_id', _get_chain_id)
SEChainId(t) ==
    /\ pc[t] = "se_chain"
    /\ loc' = [loc EXCEPT ![t].method = "get_chain_id",
                          ![t].use_cache = TRUE,
                          ![t].key = ChainIdKey,
                          ![t].body = "_get_chain_id"]
    /\ CallTracked(t, "cc_start", "se_sign")
    /\ UNCHANGED <<now, rlVars, cacheVars, cbVars, restVars>>

\* _get_chain_id: return self.w3.eth.chain_id, on self.w3 directly
CIFunc(t) ==
    /\ pc[t] = "ci_func"
    /\ IF healthy[w3]
       THEN loc' = [loc EXCEPT ![t].ret = "v1", ![t].sent = @ + 1]
       ELSE loc' = [loc EXCEPT ![t].exc = "Exception", ![t].sent = @ + 1]
    /\ Return(t)
    /\ UNCHANGED <<now, rlVars, cacheVars, cbVars, restVars>>

\* get_chain_id() returned or raised; signed_tx =
\* self.wallet.sign_transaction(tx)
SESign(t) ==
    /\ pc[t] = "se_sign"
    /\ loc' = [loc EXCEPT ![t].method = "send_eth",
                          ![t].use_cache = FALSE,
                          ![t].ret = None]
    /\ Goto(t, IF loc[t].exc = None THEN "se_send" ELSE "se_except")
    /\ UNCHANGED <<now, rlVars, cacheVars, cbVars, restVars>>

\* tx_hash = self.client.w3.eth.send_raw_transaction(...); return
\* tx_hash_hex (wait_for_receipt is False)
SESend(t) ==
    /\ pc[t] = "se_send"
    /\ IF healthy[w3]
       THEN /\ loc' = [loc EXCEPT ![t].broadcasts = @ + 1,
                                  ![t].sent = @ + 1,
                                  ![t].ret = "tx_hash"]
            /\ Return(t)
       ELSE /\ loc' = [loc EXCEPT ![t].broadcasts = @ + 1,
                                  ![t].sent = @ + 1]
            /\ Goto(t, "se_except")
    /\ UNCHANGED <<now, rlVars, cacheVars, cbVars, restVars>>

\* except Exception as e: raise TransactionError(...) from e
SEExcept(t) ==
    /\ pc[t] = "se_except"
    /\ loc' = [loc EXCEPT ![t].exc = "TransactionError"]
    /\ Return(t)
    /\ UNCHANGED <<now, rlVars, cacheVars, cbVars, restVars>>

L1FeeStep(t) == GetL1FeeCall(t) \/ L1Start(t) \/ L1Ran(t)

SendEthStep(t) ==
    \/ SendEthCall(t)
    \/ SEStart(t)
    \/ SENonce(t)
    \/ SEGasPrice(t)
    \/ SEChainId(t)
    \/ CIFunc(t)
    \/ SESign(t)
    \/ SESend(t)
    \/ SEExcept(t)

(* ------------------ Transaction.wait_for_confirmation ------------------ *)

\* What the chain holds for a transaction hash: nothing, a transaction in the
\* mempool, or a mined transaction whose receipt has status 1 or status 0.
ChainStates == {"not_found", "pending", "status1", "status0"}

Mined == {"status1", "status0"}

Max(a, b) == IF a >= b THEN a ELSE b

\* A thread calls wait_for_confirmation(tx_hash, timeout, poll_interval):
\* start_time = time.time()
WaitCall(t) ==
    /\ pc[t] = "idle"
    /\ ncalls < MaxCalls
    /\ ncalls' = ncalls + 1
    /\ \E to \in 0..MaxTimeout, pi \in 0..MaxPoll, c \in ChainStates :
          /\ now + to + Max(pi, 1) <= MaxTime
          /\ loc' = [loc EXCEPT ![t] =
                        [NoLocals EXCEPT !.method = "wait_for_confirmation",
                                         !.timeout = to,
                                         !.poll_interval = pi,
                                         !.start_time = now,
                                         !.chain = c]]
    /\ Call(t, "w_head", "done")
    /\ UNCHANGED <<now, rlVars, cacheVars, cbVars, clVars, mVars, healthy>>

\* The transaction of a waiting thread reaches the mempool, is mined, or is
\* dropped from the mempool.
ChainChange ==
    /\ \E t \in Threads :
          /\ pc[t] \in {"w_head", "gs_receipt", "gs_get", "w_status",
                        "w_receipt", "w_failed", "w_sleep"}
          /\ \E c \in ChainStates :
                /\ \/ loc[t].chain = "not_found" /\ c = "pending"
                   \/ loc[t].chain = "pending" /\ c # "pending"
                /\ loc' = [loc EXCEPT ![t].chain = c]
    /\ UNCHANGED <<now, pc, stack, rlVars, cacheVars, cbVars, restVars>>

\* The endpoint the client is connected to goes down or comes back.
Outage == EnvChange /\ healthy'[w3] # healthy[w3]

\* A mutant of Elapsed: the timeout is never reached.
NeverElapsed(t) == FALSE

\* elapsed = time.time() - start_time; if elapsed > timeout
Elapsed(t) == now - loc[t].start_time > loc[t].timeout

\* while True: if elapsed > timeout: raise TransactionError; status =
\* self.get_status(tx_hash)
WHead(t) ==
    /\ pc[t] = "w_head"
    /\ IF Elapsed(t)
       THEN /\ loc' = [loc EXCEPT ![t].exc = "TransactionError",
                                  ![t].cause = "timeout"]
            /\ Return(t)
       ELSE /\ loc' = [loc EXCEPT ![t].polls = Min(@ + 1, MaxPolls)]
            /\ Call(t, "gs_receipt", "w_status")
    /\ UNCHANGED <<now, rlVars, cacheVars, cbVars, restVars>>

\* get_status: try: receipt = self.get_receipt(tx_hash); return "confirmed"
\* if receipt['status'] == 1 else "failed". get_receipt raises
\* TransactionError when the transport call raises: no receipt yet, or the
\* endpoint is not reached.
GSReceipt(t) ==
    /\ pc[t] = "gs_receipt"
    /\ IF healthy[w3] /\ loc[t].chain \in Mined
       THEN /\ loc' = [loc EXCEPT ![t].status =
                                     IF loc[t].chain = "status1"
                                     THEN "confirmed" ELSE "failed"]
            /\ Return(t)
       ELSE /\ Goto(t, "gs_get")
            /\ UNCHANGED loc
    /\ UNCHANGED <<now, rlVars, cacheVars, cbVars, restVars>>

\* get_status: except TransactionError: try: tx = self.get(tx_hash); return
\* "pending"; except TransactionError: return "not_found"
GSGet(t) ==
    /\ pc[t] = "gs_get"
    /\ loc' = [loc EXCEPT ![t].status =
                             IF healthy[w3] /\ loc[t].chain # "not_found"
                             THEN "pending" ELSE "not_found"]
    /\ Return(t)
    /\ UNCHANGED <<now, rlVars, cacheVars, cbVars, restVars>>

\* if status == "confirmed" ... elif status == "failed" ... elif status ==
\* "not_found": raise TransactionError; otherwise the transaction is pending
WStatus(t) ==
    /\ pc[t] = "w_status"
    /\ IF loc[t].status = "not_found"
       THEN /\ loc' = [loc EXCEPT ![t].exc = "TransactionError",
                                  ![t].cause = "not_found"]
            /\ Return(t)
       ELSE /\ Goto(t, CASE loc[t].status = "confirmed" -> "w_receipt"
                         [] loc[t].status = "failed" -> "w_failed"
                         [] OTHER -> "w_sleep")
            /\ UNCHANGED loc
    /\ UNCHANGED <<now, rlVars, cacheVars, cbVars, restVars>>

\* return self.get_receipt(tx_hash): the receipt is fetched once more
WReceipt(t) ==
    /\ pc[t] = "w_receipt"
    /\ IF healthy[w3] /\ loc[t].chain \in Mined
       THEN loc' = [loc EXCEPT ![t].receipt = loc[t].chain,
                              ![t].ret = "receipt"]
       ELSE loc' = [loc EXCEPT ![t].exc = "TransactionError",
                              ![t].cause = "receipt"]
    /\ Return(t)
    /\ UNCHANGED <<now, rlVars, cacheVars, cbVars, restVars>>

\* receipt = self.get_receipt(tx_hash); raise TransactionError(... failed in
\* block ...): either way a TransactionError leaves the call
WFailed(t) ==
    /\ pc[t] = "w_failed"
    /\ loc' = [loc EXCEPT ![t].exc = "TransactionError",
                          ![t].cause = IF healthy[w3] /\ loc[t].chain \in Mined
                                       THEN "failed" ELSE "receipt"]
    /\ Return(t)
    /\ UNCHANGED <<now, rlVars, cacheVars, cbVars, restVars>>

\* time.sleep(poll_interval), and back to the head of the loop
WSleep(t) ==
    /\ pc[t] = "w_sleep"
    /\ now' = now + loc[t].poll_interval
    /\ Goto(t, "w_head")
    /\ UNCHANGED <<loc, rlVars, cacheVars, cbVars, restVars>>

\* The steps of a wait_for_confirmation call that has started.
WaitBody(t) ==
    \/ WHead(t)
    \/ GSReceipt(t)
    \/ GSGet(t)
    \/ WStatus(t)
    \/ WReceipt(t)
    \/ WFailed(t)
    \/ WSleep(t)

(* ----------------------- BaseClient.health_check ----------------------- *)

\* A thread calls health_check().
HealthCheckCall(t) ==
    /\ pc[t] = "idle"
    /\ ncalls < MaxCalls
    /\ ncalls' = ncalls + 1
    /\ loc' = [loc EXCEPT ![t] = [NoLocals EXCEPT !.h0 = cache_hits,
                                                  !.m0 = cache_misses]]
    /\ Call(t, "hc_start", "done")
    /\ UNCHANGED <<now, rlVars, cacheVars, cbVars, clVars, mVars, healthy>>

\* health = {'connected': False, ...}; try: health['connected'] =
\* self.is_connected(), a method under @track_performance
HCStart(t) ==
    /\ pc[t] = "hc_start"
    /\ loc' = [loc EXCEPT ![t].method = "is_connected"]
    /\ CallTracked(t, "ic_call", "hc_connected")
    /\ UNCHANGED <<now, rlVars, cacheVars, cbVars, restVars>>

\* is_connected: try: return self.w3.is_connected(); except Exception:
\* return False
ICCall(t) ==
    /\ pc[t] = "ic_call"
    /\ loc' = [loc EXCEPT ![t].ret = IF healthy[w3] THEN "True" ELSE "False"]
    /\ Return(t)
    /\ UNCHANGED <<now, rlVars, cacheVars, cbVars, restVars>>

\* if health['connected']: health['block_number'] = self.get_block_number();
\* otherwise health['status'] = 'unhealthy'
HCConnected(t) ==
    /\ pc[t] = "hc_connected"
    /\ IF loc[t].ret = "True"
       THEN /\ loc' = [loc EXCEPT ![t].health.connected = TRUE,
                                  ![t].method = "get_block_number",
                                  ![t].use_cache = TRUE,
                                  ![t].key = "k1",
                                  ![t].req = "good",
                                  ![t].wrapped = "_rpc_call",
                                  ![t].ret = None]
            /\ CallTracked(t, "cc_start", "hc_block")
       ELSE /\ loc' = [loc EXCEPT ![t].health.status = "unhealthy",
                                  ![t].ret = None]
            /\ Goto(t, "hc_metrics")
    /\ UNCHANGED <<now, rlVars, cacheVars, cbVars, restVars>>

\* get_block_number() returned: health['status'] = 'healthy'; or it raised:
\* except Exception as e: health['status'] = 'unhealthy'; health['error'] =
\* str(e)
HCBlock(t) ==
    /\ pc[t] = "hc_block"
    /\ IF loc[t].exc = None
       THEN loc' = [loc EXCEPT ![t].health.block_number = TRUE,
                               ![t].health.status = "healthy",
                               ![t].ret = None]
       ELSE loc' = [loc EXCEPT ![t].health.status = "unhealthy",
                               ![t].health.error = TRUE,
                               ![t].exc = None,
                               ![t].ret = None]
    /\ Goto(t, "hc_metrics")
    /\ UNCHANGED <<now, rlVars, cacheVars, cbVars, restVars>>

\* health['metrics'] = self.get_metrics()
HCMetrics(t) ==
    /\ pc[t] = "hc_metrics"
    /\ Call(t, "m_stats", "hc_return")
    /\ UNCHANGED <<now, loc, rlVars, cacheVars, cbVars, restVars>>

\* return health
HCReturn(t) ==
    /\ pc[t] = "hc_return"
    /\ Return(t)
    /\ UNCHANGED <<now, loc, rlVars, cacheVars, cbVars, restVars>>

HealthStep(t) ==
    \/ HealthCheckCall(t)
    \/ HCStart(t)
    \/ ICCall(t)
    \/ HCConnected(t)
    \/ HCBlock(t)
    \/ HCMetrics(t)
    \/ HCReturn(t)

(* ------------------------ BaseClient.get_base_fee ---------------------- *)

\* latest_block.get('baseFeePerGas', 0), for the blocks the endpoints return
BaseFeePerGas(block) == IF block = "v1" THEN "fee1" ELSE "fee2"

\* _get_base_fee: try: latest_block = self.get_block('latest'), which goes
\* through _cached_call under the fingerprint of get_block
BFTry(t) ==
    /\ pc[t] = "bf_try"
    /\ loc' = [loc EXCEPT ![t].outer = loc[t].key,
                          ![t].key = "k1",
                          ![t].body = None,
                          ![t].method = "get_block"]
    /\ CallTracked(t, "cc_start", "bf_got")
    /\ UNCHANGED <<now, rlVars, cacheVars, cbVars, restVars>>

\* return latest_block.get('baseFeePerGas', 0);
\* except Exception as e: return 0
BFGot(t) ==
    /\ pc[t] = "bf_got"
    /\ loc' = [loc EXCEPT ![t].key = loc[t].outer,
                          ![t].outer = None,
                          ![t].body = "_get_base_fee",
                          ![t].method = "get_base_fee",
                          ![t].exc = None,
                          ![t].ret = IF loc[t].exc = None
                                     THEN BaseFeePerGas(loc[t].ret)
                                     ELSE "0"]
    /\ Return(t)
    /\ UNCHANGED <<now, rlVars, cacheVars, cbVars, restVars>>

BaseFeeStep(t) == BFTry(t) \/ BFGot(t)

\* A thread calls get_base_fee().
BaseFeeCall(t) ==
    /\ pc[t] = "idle"
    /\ ncalls < MaxCalls
    /\ ncalls' = ncalls + 1
    /\ loc' = [loc EXCEPT ![t] = [NoLocals EXCEPT !.use_cache = TRUE,
                                                  !.key = "k2",
                                                  !.body = "_get_base_fee",
                                                  !.method = "get_base_fee",
                                                  !.req = "good",
                                                  !.wrapped = "_rpc_call"]]
    /\ CallTracked(t, "cc_start", "done")
    /\ UNCHANGED <<now, rlVars, cacheVars, cbVars, clVars, mVars, healthy>>

\* A thread calls a public read that calls _rpc_call directly, with a request
\* the remote accepts: get_transaction_count(address, 'pending').
DirectCall(t) ==
    /\ pc[t] = "idle"
    /\ ncalls < MaxReads
    /\ ncalls' = ncalls + 1
    /\ loc' = [loc EXCEPT ![t] = [NoLocals EXCEPT !.req = "good",
                                                  !.wrapped = "_rpc_call",
                                                  !.method =
                                                     "get_transaction_count",
                                                  !.pre = Before,
                                                  !.h0 = cache_hits,
                                                  !.m0 = cache_misses]]
    /\ CallTracked(t, "rw_start", "done")
    /\ UNCHANGED <<now, rlVars, cacheVars, cbVars, clVars, mVars, healthy>>

\* The caller has seen the outcome of its call.
Finish(t) ==
    /\ pc[t] = "done"
    /\ loc' = [loc EXCEPT ![t] = NoLocals]
    /\ Goto(t, "idle")
    /\ UNCHANGED <<now, rlVars, cacheVars, cbVars, restVars>>

(* ---------------------------- specifications --------------------------- *)

Init ==
    /\ now = 0
    /\ pc = [t \in Threads |-> "idle"]
    /\ stack = [t \in Threads |-> <<>>]
    /\ loc = [t \in Threads |-> NoLocals]
    /\ tokens = Capacity
    /\ last_update = 0
    /\ rlLock = 0
    /\ acquired = <<>>
    /\ cache = [k \in Keys |-> None]
    /\ timestamps = [k \in Keys |-> None]
    /\ lastSet = [k \in Keys |-> NoEntry]
    /\ state = [u \in Endpoints |-> "closed"]
    /\ failure_count = [u \in Endpoints |-> 0]
    /\ last_failure_time = [u \in Endpoints |-> None]
    /\ streak = [u \in Endpoints |-> 0]
    /\ cbLock = 0
    /\ current_rpc_index = 1
    /\ connection_attempts = 0
    /\ w3 = 1
    /\ clLock = 0
    /\ cache_hits = 0
    /\ cache_misses = 0
    /\ request_count = [m \in Tracked |-> 0]
    /\ error_count = [m \in Tracked |-> 0]
    /\ rpc_usage = [u \in Endpoints |-> 0]
    /\ circuit_breaker_trips = 0
    /\ mLock = 0
    /\ healthy = [u \in Endpoints |-> TRUE]
    /\ ncalls = 0

\* Threads calling RateLimiter.acquire() concurrently.
NextRL ==
    \/ Tick
    \/ \E t \in Threads : CallAcquire(t) \/ RateLimiterStep(t) \/ Finish(t)

SpecRL == Init /\ [][NextRL]_vars

\* A sequence of calls of Cache.get, Cache.set and Cache.clear.
NextCache ==
    \/ Tick
    \/ CallCacheGet(1)
    \/ CallCacheSet(1)
    \/ CallCacheClear(1)
    \/ CacheStep(1)
    \/ Finish(1)

SpecCache == Init /\ [][NextCache]_vars

\* One thread calling CircuitBreaker.call, one call after the other.
NextCBSeq ==
    \/ Tick
    \/ CallBreaker(1)
    \/ CircuitBreakerStep(1)
    \/ CBFuncStub(1)
    \/ Finish(1)

SpecCBSeq == Init /\ [][NextCBSeq]_vars

\* Threads calling CircuitBreaker.call concurrently for one endpoint: the
\* three locked blocks of a call are atomic, func runs outside the lock.
NextCB ==
    \/ Tick
    \/ \E t \in Threads :
          \/ CallBreakerOn(t, 1)
          \/ CircuitBreakerStep(t)
          \/ CBFuncStub(t)
          \/ Finish(t)

SpecCB == Init /\ [][NextCB]_vars

\* One thread calling the retry wrapper around a func of its own.
NextRetry ==
    \/ Tick
    \/ CallWrapper(1)
    \/ RetryStep(1)
    \/ StubFunc(1)
    \/ Finish(1)

SpecRetry == Init /\ [][NextRetry]_vars

\* The client after construction: _connect found the endpoints before i
\* unreachable (one failure each) and connected to endpoint i.
InitClient ==
    /\ now = 0
    /\ pc = [t \in Threads |-> "idle"]
    /\ stack = [t \in Threads |-> <<>>]
    /\ loc = [t \in Threads |-> NoLocals]
    /\ tokens = Capacity
    /\ last_update = 0
    /\ rlLock = 0
    /\ acquired = <<>>
    /\ cache = [k \in Keys |-> None]
    /\ timestamps = [k \in Keys |-> None]
    /\ lastSet = [k \in Keys |-> NoEntry]
    /\ connection_attempts = 0
    /\ clLock = 0
    /\ cache_hits = 0
    /\ cache_misses = 0
    /\ request_count = [m \in Tracked |-> 0]
    /\ error_count = [m \in Tracked |-> 0]
    /\ rpc_usage = [u \in Endpoints |-> 0]
    /\ circuit_breaker_trips = 0
    /\ mLock = 0
    /\ ncalls = 0
    /\ \E i \in Endpoints :
          /\ w3 = i
          /\ current_rpc_index = i
          /\ healthy \in {h \in [Endpoints -> BOOLEAN] :
                             h[i] /\ \A j \in 1..(i - 1) : ~h[j]}
          /\ failure_count = [u \in Endpoints |-> IF u < i THEN 1 ELSE 0]
          /\ streak = [u \in Endpoints |-> IF u < i THEN 1 ELSE 0]
          /\ cbLock = 0
          /\ last_failure_time = [u \in Endpoints |-> IF u < i THEN 0 ELSE None]
          /\ state = [u \in Endpoints |->
                        IF u < i /\ Tripped(1) THEN "open" ELSE "closed"]

\* One thread calling the public methods of the client, one call after the
\* other, while endpoints go down and come back.
Next ==
    \/ Tick
    \/ EnvChange
    \/ PublicCall(1)
    \/ CachedCallStep(1)
    \/ RetryStep(1)
    \/ RpcCallStep(1)
    \/ RotateStep(1)
    \/ CircuitBreakerStep(1)
    \/ RateLimiterStep(1)
    \/ CacheGet(1)
    \/ CacheSet(1)
    \/ TrackStep(1)
    \/ Finish(1)

Spec == InitClient /\ [][Next]_vars

\* One thread making cached reads only, accepted or declined by the remote,
\* while the clock advances and endpoints go down and come back.
NextCached ==
    \/ Tick
    \/ EnvChange
    \/ CachedRead(1)
    \/ CachedCallStep(1)
    \/ RetryStep(1)
    \/ RpcCallStep(1)
    \/ RotateStep(1)
    \/ CircuitBreakerStep(1)
    \/ RateLimiterStep(1)
    \/ CacheGet(1)
    \/ CacheSet(1)
    \/ TrackStep(1)
    \/ Finish(1)

SpecCached == InitClient /\ [][NextCached]_vars

\* One thread making uncached reads back to back, for a longer time, while
\* endpoints go down and come back: the clock advances in the backoff sleeps.
NextFailover ==
    \/ EnvChange
    \/ DirectCall(1)
    \/ RWStart(1)
    \/ RWLoop(1)
    \/ RWRet(1)
    \/ RWSleepLong(1)
    \/ RpcCallStep(1)
    \/ RotateStep(1)
    \/ CircuitBreakerStep(1)
    \/ RateLimiterStep(1)
    \/ TrackStep(1)
    \/ Finish(1)

SpecFailover == InitClient /\ [][NextFailover]_vars

\* One thread calling get_base_fee(), one call after the other, while
\* endpoints go down and come back.
NextBaseFee ==
    \/ Tick
    \/ EnvChange
    \/ BaseFeeCall(1)
    \/ BaseFeeStep(1)
    \/ CachedCallStep(1)
    \/ RetryStep(1)
    \/ RpcCallStep(1)
    \/ RotateStep(1)
    \/ CircuitBreakerStep(1)
    \/ RateLimiterStep(1)
    \/ CacheGet(1)
    \/ CacheSet(1)
    \/ TrackStep(1)
    \/ Finish(1)

SpecBaseFee == InitClient /\ [][NextBaseFee]_vars

\* The threads begin their calls in the order of their numbers: which
\* thread is which makes no difference to the client.
Ready(t) == \A s \in Threads : s < t => pc[s] # "idle"

\* What a thread does in the concurrent client: it begins one call
\* (get_block_number(), a rotation, a cache clear, a reading or a reset of the
\* metrics) and goes on with it to its end.
ClientThread(t) ==
    \/ Ready(t) /\ BlockNumberCall(t)
    \/ Ready(t) /\ CallRotate(t)
    \/ Ready(t) /\ CallClearCache(t)
    \/ Ready(t) /\ CallGetMetrics(t)
    \/ Ready(t) /\ CallResetMetrics(t)
    \/ CachedCallStep(t)
    \/ RWStart(t)
    \/ RWLoop(t)
    \/ RWRet(t)
    \/ RPCStart(t)
    \/ RPCAcquired(t)
    \/ RPCFunc(t)
    \/ RotateStep(t)
    \/ CircuitBreakerStep(t)
    \/ RateLimiterStep(t)
    \/ CacheStep(t)
    \/ TrackStep(t)
    \/ MetricsStep(t)

\* Threads sharing one client, one call each, on endpoints that stay as they
\* are.
NextLocks == \E t \in Threads : ClientThread(t)

SpecLocks == InitClient /\ [][NextLocks]_vars

\* Threads calling decorated methods of one client concurrently, one call
\* after the other.
NextMetrics ==
    \E t \in Threads :
       CallDecorated(t) \/ TPFuncStub(t) \/ TrackStep(t) \/ Finish(t)

SpecMetrics == InitClient /\ [][NextMetrics]_vars

\* A thread calls a method of the Metrics object: record_request(method,
\* duration, success, rpc_url), record_cache_hit(), record_cache_miss(),
\* reset() or get_stats().
MetricsCall(t) ==
    /\ pc[t] = "idle"
    /\ ncalls < MaxOps
    /\ ncalls' = ncalls + 1
    /\ \/ /\ \E m \in {mm.name : mm \in Methods}, success \in BOOLEAN :
               loc' = [loc EXCEPT ![t] =
                          [NoLocals EXCEPT !.method = m,
                                           !.rpc_url = w3,
                                           !.exc = IF success THEN None
                                                   ELSE "Exception"]]
          /\ Call(t, "m_enter", "done")
       \/ /\ loc' = [loc EXCEPT ![t] = NoLocals]
          /\ \E op \in {"m_hit", "m_miss", "m_reset", "m_stats"} :
                Call(t, op, "done")
    /\ UNCHANGED <<now, rlVars, cacheVars, cbVars, clVars, mVars, healthy>>

\* Threads sharing one Metrics object, each calling its methods one after the
\* other.
NextReset ==
    \E t \in Threads :
       \/ MetricsCall(t)
       \/ MEnter(t)
       \/ MWrite(t)
       \/ MHit(t)
       \/ MMiss(t)
       \/ MetricsStep(t)
       \/ Finish(t)

SpecReset == InitClient /\ [][NextReset]_vars

\* One thread calling get_block and get_balance with arguments of every
\* kind, while endpoints go down and come back: the clock advances in the
\* backoff sleeps.
NextValidate ==
    \/ EnvChange
    \/ ValidatedCallStep(1)
    \/ CachedCallStep(1)
    \/ CacheGet(1)
    \/ CacheSet(1)
    \/ RWStart(1)
    \/ RWLoop(1)
    \/ RWRet(1)
    \/ RWSleepLong(1)
    \/ RpcCallStep(1)
    \/ RotateStep(1)
    \/ CircuitBreakerStep(1)
    \/ RateLimiterStep(1)
    \/ TrackStep(1)
    \/ Finish(1)

SpecValidate == InitClient /\ [][NextValidate]_vars

\* One thread sending ether and making the reads that must be fresh:
\* get_l1_fee, get_block, and get_transaction_count of 'pending', while
\* endpoints go down and come back.
NextWrites ==
    \/ EnvChange
    \/ SendEthStep(1)
    \/ L1FeeStep(1)
    \/ GetBlockCall(1)
    \/ GBStart(1)
    \/ DirectCall(1)
    \/ CachedCallStep(1)
    \/ CacheGet(1)
    \/ CacheSet(1)
    \/ RWStart(1)
    \/ RWLoop(1)
    \/ RWRet(1)
    \/ RWSleepLong(1)
    \/ RpcCallStep(1)
    \/ RotateStep(1)
    \/ CircuitBreakerStep(1)
    \/ RateLimiterStep(1)
    \/ TrackStep(1)
    \/ Finish(1)

SpecWrites == InitClient /\ [][NextWrites]_vars

\* One thread waiting for transactions, one call after the other, while the
\* clock advances, the transaction moves on the chain and endpoints go down
\* and come back.
NextWait ==
    \/ Tick
    \/ Outage
    \/ ChainChange
    \/ WaitCall(1)
    \/ WaitBody(1)
    \/ Finish(1)

\* The constructor found every endpoint up and connected to the first.
InitWait == InitClient /\ w3 = 1 /\ \A u \in Endpoints : healthy[u]

\* The clock advances, and a thread in wait_for_confirmation keeps running.
SpecWait ==
    /\ InitWait
    /\ [][NextWait]_vars
    /\ WF_vars(Tick)
    /\ WF_vars(WaitBody(1))

\* One thread calling health_check(), one call after the other, while
\* endpoints go down and come back: the clock advances in the backoff sleeps.
NextHealth ==
    \/ EnvChange
    \/ HealthStep(1)
    \/ CachedCallStep(1)
    \/ CacheGet(1)
    \/ CacheSet(1)
    \/ RWStart(1)
    \/ RWLoop(1)
    \/ RWRet(1)
    \/ RWSleepLong(1)
    \/ RpcCallStep(1)
    \/ RotateStep(1)
    \/ CircuitBreakerStep(1)
    \/ RateLimiterStep(1)
    \/ TrackStep(1)
    \/ MStats(1)
    \/ Finish(1)

SpecHealth == InitClient /\ [][NextHealth]_vars

\* Before BaseClient(...): no endpoint has been tried, any of them may be
\* unreachable, and thread 1 is about to construct the client.
InitNew ==
    /\ now = 0
    /\ pc = [t \in Threads |-> IF t = 1 THEN "new" ELSE "idle"]
    /\ stack = [t \in Threads |-> <<>>]
    /\ loc = [t \in Threads |-> NoLocals]
    /\ tokens = Capacity
    /\ last_update = 0
    /\ rlLock = 0
    /\ acquired = <<>>
    /\ cache = [k \in Keys |-> None]
    /\ timestamps = [k \in Keys |-> None]
    /\ lastSet = [k \in Keys |-> NoEntry]
    /\ state = [u \in Endpoints |-> "closed"]
    /\ failure_count = [u \in Endpoints |-> 0]
    /\ last_failure_time = [u \in Endpoints |-> None]
    /\ streak = [u \in Endpoints |-> 0]
    /\ cbLock = 0
    /\ current_rpc_index = 1
    /\ connection_attempts = 0
    /\ w3 = 0
    /\ clLock = 0
    /\ cache_hits = 0
    /\ cache_misses = 0
    /\ request_count = [m \in Tracked |-> 0]
    /\ error_count = [m \in Tracked |-> 0]
    /\ rpc_usage = [u \in Endpoints |-> 0]
    /\ circuit_breaker_trips = 0
    /\ mLock = 0
    /\ healthy \in [Endpoints -> BOOLEAN]
    /\ ncalls = 0

\* One thread constructing the client and then making uncached reads back to
\* back, while endpoints go down and come back.
NextConnect ==
    \/ EnvChange
    \/ Construct(1)
    \/ InitConnected(1)
    \/ DirectCall(1)
    \/ RWStart(1)
    \/ RWLoop(1)
    \/ RWRet(1)
    \/ RWSleepLong(1)
    \/ RpcCallStep(1)
    \/ RotateStep(1)
    \/ CircuitBreakerStep(1)
    \/ RateLimiterStep(1)
    \/ TrackStep(1)
    \/ Finish(1)

SpecConnect == InitNew /\ [][NextConnect]_vars

\* One thread calling get_block_number() again and again; the clock advances
\* only in the backoff sleeps.
NextBurst ==
    \/ EnvChange
    \/ BlockNumberCall(1)
    \/ CachedCallStep(1)
    \/ RetryStep(1)
    \/ RpcCallStep(1)
    \/ RotateStep(1)
    \/ CircuitBreakerStep(1)
    \/ RateLimiterStep(1)
    \/ CacheGet(1)
    \/ CacheSet(1)
    \/ TrackStep(1)
    \/ Finish(1)

SpecBurst == InitClient /\ [][NextBurst]_vars

(* ------------------------------- claims -------------------------------- *)

\* C1: for sequential calls of CircuitBreaker.call on an endpoint: a failure
\* in the closed state opens the circuit exactly when it is the threshold-th
\* consecutive failure; a call made while the circuit is open and
\* now - last_failure_time <= timeout raises CircuitBreakerOpenError without
\* reaching func and changes nothing; a call made while open after the
\* timeout is admitted with the circuit half-open; and when func succeeds in
\* the half-open state the circuit is closed with failure_count 0.
C1_BreakerTripAndReset ==
    [][\A t \in Threads :
         LET u == loc[t].url IN
         /\ (pc[t] = "cb_failure" /\ pc'[t] # "cb_failure" /\ state[u] = "closed") =>
               /\ (state'[u] = "open") = (streak'[u] = CIRCUIT_BREAKER_THRESHOLD)
               /\ (state'[u] = "closed") = (streak'[u] < CIRCUIT_BREAKER_THRESHOLD)
         /\ (pc[t] = "cb_admit" /\ pc'[t] # "cb_admit" /\ state[u] = "open") =>
               IF now - last_failure_time[u] <= CIRCUIT_BREAKER_TIMEOUT
               THEN /\ loc'[t].exc = "CircuitBreakerOpenError"
                    /\ pc'[t] = Head(stack[t])
                    /\ UNCHANGED <<state, failure_count, last_failure_time,
                                   streak>>
               ELSE /\ pc'[t] = "cb_func"
                    /\ state'[u] = "half-open"
         /\ (pc[t] = "cb_success" /\ pc'[t] # "cb_success" /\ state[u] = "half-open") =>
               /\ state'[u] = "closed"
               /\ failure_count'[u] = 0]_vars

\* C1 witness: the threshold was reached, the timeout has passed, the trial
\* call was admitted half-open and its func has returned.
C1_Witness ==
    \E u \in Endpoints :
       /\ pc[1] = "cb_success"
       /\ loc[1].url = u
       /\ state[u] = "half-open"
       /\ streak[u] = CIRCUIT_BREAKER_THRESHOLD
       /\ now - last_failure_time[u] > CIRCUIT_BREAKER_TIMEOUT

\* C2: every transport call of a public read goes through
\* CircuitBreaker.call for the active endpoint: when a transport call has
\* failed, the breaker has counted a failure for the endpoint it was sent to,
\* and no transport call is made to an endpoint whose circuit is open.
C2_TransportGoesThroughBreaker ==
    \A t \in Threads :
       /\ pc[t] = "rpc_except" => failure_count[loc[t].url] >= 1
       /\ pc[t] = "rpc_func" => state[w3] # "open"

\* C3: Cache.get(key) returns the value of the last set of the key since the
\* last clear if and only if there is one and it is younger than the ttl;
\* otherwise it returns None and the cache holds no entry for the key
\* afterwards.
C3_GetServesOnlyFreshEntries ==
    [][\A t \in Threads :
         (pc[t] = "cache_get" /\ pc'[t] # "cache_get") =>
            LET k == loc[t].key
                live == lastSet[k].val # None /\ now - lastSet[k].at < CACHE_TTL
            IN /\ loc'[t].ret = IF live THEN lastSet[k].val ELSE None
               /\ live => cache'[k] = lastSet[k].val
               /\ ~live => cache'[k] = None]_vars

\* C3 witness: a get of a key whose entry had reached its ttl returned None
\* and the entry is gone.
C3_Witness ==
    \E k \in Keys :
       /\ pc[1] = "done"
       /\ loc[1].key = k
       /\ loc[1].val = None
       /\ loc[1].ret = None
       /\ lastSet[k].val # None
       /\ now - lastSet[k].at = CACHE_TTL
       /\ cache[k] = None

\* C4: when a call through _cached_call is over: if the history of sets held
\* a fresh entry for its fingerprint when the cache was read, the call has
\* returned that value, recorded one hit and no miss, and neither ran func,
\* nor took a token, nor sent anything; otherwise it has recorded one miss
\* and no hit and run func once, and if func returned, the call has returned
\* its result and the cache holds it under the fingerprint as the last set
\* (which is what an identical call within the ttl is then served).
C4_CachedCallHitOrMiss ==
    \A t \in Threads :
       (pc[t] = "done" /\ loc[t].use_cache) =>
          LET hits == cache_hits - loc[t].h0
              misses == cache_misses - loc[t].m0
              k == loc[t].key
          IN IF loc[t].live
             THEN /\ hits = 1 /\ misses = 0
                  /\ loc[t].execs = 0 /\ loc[t].taken = 0 /\ loc[t].sent = 0
                  /\ loc[t].exc = None
                  /\ loc[t].ret = lastSet[k].val
             ELSE /\ hits = 0 /\ misses = 1
                  /\ loc[t].execs = 1
                  /\ loc[t].exc = None =>
                        /\ loc[t].ret \in Values
                        /\ loc[t].sent >= 1
                        /\ cache[k] = loc[t].ret
                        /\ lastSet[k].val = loc[t].ret

\* C4 witness: a call that missed and stored its result has been followed by
\* an identical call, which was served the stored value as a hit.
C4_Witness ==
    /\ pc[1] = "done"
    /\ loc[1].use_cache
    /\ loc[1].live
    /\ loc[1].ret \in Values
    /\ loc[1].ret = cache[loc[1].key]
    /\ cache_hits = 1
    /\ cache_misses = 1

\* C5: in every reachable state of the RateLimiter, whatever the number of
\* threads inside acquire() and however the clock advances,
\* 0 <= tokens <= capacity.
C5_TokensWithinBucket == 0 <= tokens /\ tokens <= Capacity

\* C5 witness: time has passed, one thread is about to take the last token
\* while another waits for the lock.
C5_Witness ==
    /\ now > 0
    /\ tokens = RATE_LIMIT_WINDOW
    /\ \E t, u \in Threads : pc[t] = "rl_take" /\ pc[u] = "rl_lock"

\* C6 as stated: starting from a full bucket, no window of length
\* RATE_LIMIT_WINDOW holds more than RATE_LIMIT_REQUESTS successful acquires.
C6_AtMostCapacityPerWindow == Len(acquired) <= RATE_LIMIT_REQUESTS

\* C6 amended: no window of length RATE_LIMIT_WINDOW holds more than
\* 2 * RATE_LIMIT_REQUESTS successful acquires (the full bucket, plus what
\* one window refills).
C6_AtMostTwiceCapacityPerWindow == Len(acquired) <= 2 * RATE_LIMIT_REQUESTS

\* C6 witness: a window that starts at the full bucket and holds
\* 2 * RATE_LIMIT_REQUESTS successful acquires.
C6_Witness ==
    /\ Len(acquired) = 2 * RATE_LIMIT_REQUESTS
    /\ acquired[1] = 0
    /\ acquired[Len(acquired)] = RATE_LIMIT_WINDOW

\* C7: while no time has elapsed since the bucket was full, a call to
\* acquire() succeeds if and only if fewer than RATE_LIMIT_REQUESTS calls
\* have succeeded; a failing call raises RateLimitError in that same step
\* (it does not wait for the clock) and leaves the token count as it was, and
\* the bucket holds the capacity minus one token per success.
C7_FirstCSucceedThenFail ==
    [][now' = 0 =>
        /\ tokens' = (RATE_LIMIT_REQUESTS - Len(acquired')) * RATE_LIMIT_WINDOW
        /\ \A t \in Threads :
              (pc[t] = "rl_check" /\ pc'[t] # "rl_check") =>
                 IF Len(acquired) < RATE_LIMIT_REQUESTS
                 THEN pc'[t] = "rl_take" /\ loc'[t].exc = None
                 ELSE /\ loc'[t].exc = "RateLimitError"
                      /\ pc'[t] = Head(stack[t])
                      /\ tokens' = tokens]_vars

\* C7 witness: at time 0, RATE_LIMIT_REQUESTS calls have succeeded and a
\* further call has returned with RateLimitError.
C7_Witness ==
    /\ now = 0
    /\ Len(acquired) = RATE_LIMIT_REQUESTS
    /\ \E t \in Threads : pc[t] = "done" /\ loc[t].exc = "RateLimitError"

\* C8 as stated: a call that has failed on every attempt of the retry wrapper
\* has been attempted MAX_RETRIES + 1 times when the error reaches the
\* caller.
C8_AttemptsMaxRetriesPlusOne ==
    \A t \in Threads :
       (pc[t] = "done" /\ loc[t].exc = "RPCError") =>
          loc[t].tries = MAX_RETRIES + 1

\* C8 amended: a call that has failed on every attempt of the retry wrapper
\* has been attempted exactly MAX_RETRIES times when the error reaches the
\* caller, each attempt having sent one transport call.
C8_AttemptsMaxRetries ==
    \A t \in Threads :
       (pc[t] = "done" /\ loc[t].exc = "RPCError") =>
          /\ loc[t].tries = MAX_RETRIES
          /\ loc[t].sent = MAX_RETRIES

\* C8 witness: a public call to an unreachable endpoint has ended with the
\* error after its attempts.
C8_Witness ==
    /\ pc[1] = "done"
    /\ loc[1].exc = "RPCError"
    /\ loc[1].cause = "transient"
    /\ loc[1].tries = MAX_RETRIES

\* C9: in the retry wrapper, the i-th sleep (i from 0) lasts
\* RETRY_BACKOFF_FACTOR^i; when the wrapper is over it has slept once between
\* each two attempts and not after the last one, whether that one failed or
\* succeeded; a result is the result of the last attempt, every attempt
\* having called func once; an error is the last one func raised, unchanged,
\* and if it is one the wrapper retries, all MAX_RETRIES attempts were made.
C9_BackoffSchedule ==
    \A t \in Threads :
       /\ \A i \in 1..Len(loc[t].sleeps) :
             loc[t].sleeps[i] = Pow(RETRY_BACKOFF_FACTOR, i - 1)
       /\ (pc[t] = "done" /\ loc[t].wrapped = "stub") =>
             /\ Len(loc[t].sleeps) = loc[t].tries - 1
             /\ loc[t].sent = loc[t].tries
             /\ loc[t].exc = None => loc[t].ret = "result"
             /\ loc[t].exc # None =>
                   /\ loc[t].exc = loc[t].cause
                   /\ loc[t].exc \in {"ConnectionError", "RPCError"} =>
                         loc[t].tries = MAX_RETRIES

\* C9 witness: the wrapper has given up after MAX_RETRIES failed attempts and
\* MAX_RETRIES - 1 sleeps.
C9_Witness ==
    /\ pc[1] = "done"
    /\ loc[1].wrapped = "stub"
    /\ loc[1].exc = "ConnectionError"
    /\ loc[1].tries = MAX_RETRIES
    /\ Len(loc[1].sleeps) = MAX_RETRIES - 1

\* C10: once the remote has declined a request (execution reverted,
\* insufficient funds), the call is on its way out to the caller: it starts no
\* rotation, takes no backoff sleep and makes no further attempt, and the
\* caller receives that error as it is.
C10_RejectedIsNotRetried ==
    \A t \in Threads :
       loc[t].cause = "rejected" =>
          /\ pc[t] \in {"rpc_except", "rpc_raise", "rw_ret", "cc_ran",
                        "tp_finally", "m_enter", "m_write", "done"}
          /\ loc[t].rotations = 0
          /\ pc[t] = "done" => loc[t].exc = "rejected"

C12_RotationAfterTwoExhaustions ==
    \A t \in Threads :
       pc[t] = "rot_lock" =>
          /\ ncalls >= 2
          /\ loc[t].tries = MAX_RETRIES

\* C13: once a rotation of a logical call has made another endpoint the
\* active one, that logical call sends no transport call any more.
C13_NoAttemptAfterRotation ==
    \A t \in Threads :
       (loc[t].rotated /\ w3 # loc[t].w0) => pc[t] # "rpc_func"

\* C14: _rotate_rpc changes current_rpc_index and w3 only after a
\* connectivity check has succeeded: while _connect has not yet had a
\* successful probe both are what they were when the rotation began; if the
\* rotation raises, it raises ConnectionError and both are as before; if it
\* returns, w3 is the endpoint current_rpc_index points to, and its probe has
\* succeeded.
C14_PointerMovesOnlyOnSuccess ==
    \A t \in Threads :
       /\ pc[t] \in {"conn_start", "conn_loop"} =>
             /\ current_rpc_index = loc[t].i0
             /\ w3 = loc[t].w0
       /\ (pc[t] = "rpc_rotated" /\ loc[t].exc # None) =>
             /\ loc[t].exc = "ConnectionError"
             /\ current_rpc_index = loc[t].i0
             /\ w3 = loc[t].w0
       /\ (pc[t] = "rpc_rotated" /\ loc[t].exc = None) =>
             /\ w3 = current_rpc_index
             /\ w3 \in loc[t].probed

\* C15: when _rotate_rpc is called while the circuit of the active endpoint
\* is open and another endpoint is reachable, and stays so, the rotation
\* returns having made a reachable endpoint other than the previous one the
\* active endpoint.
C15_RotationSelectsHealthyEndpoint ==
    \A t \in Threads :
       (pc[t] = "rpc_rotated" /\ loc[t].due # {}) =>
          /\ loc[t].exc = None
          /\ w3 # loc[t].w0
          /\ healthy[w3]

\* C16: _connect probes no endpoint whose circuit is open with its timeout
\* not elapsed: when test_connection is about to run, the circuit of its
\* endpoint is closed, or half-open with the timeout exceeded; a candidate
\* rejected by its circuit has not been probed and its circuit is open; and
\* the loop has gone over every earlier candidate, each of which was probed
\* or is skipped with its circuit open.
C16_OpenCandidateIsSkipped ==
    \A t \in Threads :
       /\ (pc[t] = "cb_func" /\ loc[t].func = "test_connection") =>
             LET u == loc[t].url IN
             /\ state[u] # "open"
             /\ state[u] = "half-open" =>
                   now - last_failure_time[u] > CIRCUIT_BREAKER_TIMEOUT
       /\ (pc[t] = "conn_called"
              /\ loc[t].exc = "CircuitBreakerOpenError") =>
             /\ loc[t].url \notin loc[t].probed
             /\ state[loc[t].url] = "open"
       /\ pc[t] = "conn_loop" =>
             /\ loc[t].probed \subseteq 1..(loc[t].idx - 1)
             /\ \A j \in 1..(loc[t].idx - 1) :
                   j \in loc[t].probed \/ state[j] = "open"

\* C16 witness: _connect has skipped an endpoint whose circuit is open and
\* goes on with the next one.
C16_Witness ==
    /\ pc[1] = "conn_loop"
    /\ loc[1].idx = 2
    /\ loc[1].probed = {}
    /\ state[1] = "open"
    /\ now - last_failure_time[1] <= CIRCUIT_BREAKER_TIMEOUT

\* C17: when a public read has ended with the error of a transient transport
\* failure, its MAX_RETRIES attempts have been made and no configured
\* endpoint is reachable.
C17_TransientFailureOnlyWhenAllExhausted ==
    \A t \in Threads :
       (pc[t] = "done" /\ loc[t].exc = "RPCError"
                      /\ loc[t].cause = "transient") =>
          /\ loc[t].tries = MAX_RETRIES
          /\ \A u \in Endpoints : ~healthy[u]

\* C18: when a public operation is over in which the retry wrapper gave up
\* with an error (rate-limited, breaker-open, or the error of a transport
\* failure or of a request the remote declined), the caller has that error:
\* the operation has not returned normally.
C18_FailuresReachTheCaller ==
    \A t \in Threads :
       (pc[t] = "done" /\ loc[t].failure # None) =>
          loc[t].exc = loc[t].failure

\* C19: whenever the func of a call that was let through while the circuit of
\* its endpoint was half-open has failed, the failure block of the call
\* leaves that circuit open, with last_failure_time set to the time of the
\* failure, whatever the other threads have done in between.
C19_FailedTrialReopens ==
    [][\A t \in Threads :
         (pc[t] = "cb_failure" /\ pc'[t] # "cb_failure" /\ loc[t].trial) =>
            /\ state'[loc[t].url] = "open"
            /\ last_failure_time'[loc[t].url] = now]_vars

\* C20: no two threads are running func for the same endpoint, both let
\* through while its circuit was half-open, in one and the same half-open
\* period.
C20_OneTrialCall ==
    \A t1, t2 \in Threads :
       (t1 # t2 /\ pc[t1] = "cb_func" /\ pc[t2] = "cb_func"
               /\ loc[t1].url = loc[t2].url
               /\ loc[t1].trial /\ loc[t2].trial) =>
          state[loc[t1].url] # "half-open"

(* ------------------------------ C21 ------------------------------------ *)

\* The positions of a thread inside CircuitBreaker.call.
InBreakerCall ==
    {"cb_enter", "cb_admit", "cb_func", "cb_ok", "cb_success", "cb_fail",
     "cb_failure"}

\* C21: a step of CircuitBreaker.call for one endpoint (admission, rejection,
\* success or failure) leaves state, failure_count and last_failure_time of
\* every other endpoint as they were, and a call is rejected only when the
\* circuit of its own endpoint is open.
C21_CallTouchesOnlyItsEndpoint ==
    [][\A t \in Threads :
         (pc[t] \in InBreakerCall /\ pc'[t] # pc[t]) =>
            /\ \A v \in Endpoints \ {loc[t].url} :
                  /\ state'[v] = state[v]
                  /\ failure_count'[v] = failure_count[v]
                  /\ last_failure_time'[v] = last_failure_time[v]
            /\ (pc[t] = "cb_admit"
                  /\ loc'[t].exc = "CircuitBreakerOpenError") =>
                  state[loc[t].url] = "open"]_vars

\* The circuit of endpoint 1 is open and a call for endpoint 2 has been let
\* through and its func has returned.
C21_Witness ==
    /\ state[1] = "open"
    /\ pc[1] = "cb_success"
    /\ loc[1].url = 2
    /\ state[2] = "closed"

(* ------------------------------ C22 ------------------------------------ *)

\* C22: the trips of the circuit breaker are reported to Metrics: while no
\* call is in progress and the circuit of some endpoint is open (the metrics
\* are never reset here), the circuit_breaker_trips that get_metrics()
\* returns counts at least that one transition to open.
C22_TripsAreReported ==
    ((\A t \in Threads : pc[t] \in {"idle", "done"})
        /\ \E u \in Endpoints : state[u] = "open") =>
       GetStats.circuit_breaker_trips >= 1

(* ------------------------------ C23 ------------------------------------ *)

\* C23: a public read that missed the cache and was not turned away by the
\* rate limiter has taken exactly one rate-limit token when it is over,
\* however many attempts the retry wrapper has made.
C23_OneTokenPerLogicalCall ==
    \A t \in Threads :
       (pc[t] = "done" /\ loc[t].use_cache /\ loc[t].execs >= 1
                      /\ loc[t].exc # "RateLimitError") =>
          loc[t].taken = 1

(* ------------------------------ C24 ------------------------------------ *)

\* C24: when a caller has made more get_block_number calls than the rate
\* limiter has tokens, one after the other with no time passing in between
\* (so no token has been refilled), one of them has raised RateLimitError:
\* the call that just ended did, or an earlier one was recorded as an error.
C24_BurstIsRateLimited ==
    (pc[1] = "done" /\ now = 0 /\ ncalls > RATE_LIMIT_REQUESTS) =>
       \/ loc[1].exc = "RateLimitError"
       \/ GetStats.errors["get_block_number"] >= 1

(* ------------------------------ C25 ------------------------------------ *)

\* C25: when _connect has come back, either it returned the endpoint, n say,
\* whose probe succeeded, current_rpc_index names it, and each of the
\* endpoints 1..n-1 was tried before it and failed its probe or was turned
\* away by its open circuit; or it raised ConnectionError after every
\* configured endpoint had failed or been turned away.  The constructor
\* makes the endpoint returned the active one, and fails with that
\* ConnectionError.
C25_ConnectPicksFirstReachable ==
    \A t \in Threads :
       LET p == loc[t].probes
           n == Len(p)
       IN /\ (pc[t] \in {"init_connected", "rot_connected"}) =>
               IF loc[t].exc = None
               THEN /\ n \in Endpoints
                    /\ p[n] = "ok"
                    /\ \A i \in 1..(n - 1) : p[i] \in {"failed", "skipped"}
                    /\ loc[t].ret = n
                    /\ current_rpc_index = n
               ELSE /\ loc[t].exc = "ConnectionError"
                    /\ n = NEndpoints
                    /\ \A i \in 1..n : p[i] \in {"failed", "skipped"}
          /\ (pc[t] = "unconstructed") =>
               (w3 = 0 /\ loc[t].exc = "ConnectionError")
          /\ (pc[t] = "idle" /\ t = 1 /\ ncalls = 0) =>
               (w3 = n /\ p[n] = "ok")

\* _connect has returned the second endpoint after the first was turned away
\* by its open circuit.
C25_Witness ==
    /\ pc[1] = "rot_connected"
    /\ loc[1].exc = None
    /\ loc[1].probes = <<"skipped", "ok">>

(* ------------------------------ C26 ------------------------------------ *)

\* The holder of each lock, 0 when it is free.  Cache._lock is not among
\* them: Cache.get, set and clear each take and release it within one step.
LockHolder ==
    [metrics |-> mLock, rate_limiter |-> rlLock, circuit_breaker |-> cbLock,
     client |-> clLock]

\* The locks thread t holds.
Held(t) == {l \in DOMAIN LockHolder : LockHolder[l] = t}

\* C26: no thread ever holds two of the locks of Metrics, RateLimiter,
\* CircuitBreaker and the client (its rotation lock) at the same time.
C26_AtMostOneLockHeld == \A t \in Threads : Cardinality(Held(t)) <= 1

(* ------------------------------ C27 ------------------------------------ *)

\* The lock thread t is about to take, "none" when it is not at the head of a
\* `with self._lock:`.
LockWanted(t) ==
    CASE pc[t] = "rot_lock" -> "client"
      [] pc[t] = "rl_lock" -> "rate_limiter"
      [] pc[t] \in {"cb_enter", "cb_ok", "cb_fail"} -> "circuit_breaker"
      [] pc[t] \in {"m_enter", "m_stats", "m_reset", "m_hit", "m_miss",
                    "cc_got"} -> "metrics"
      [] OTHER -> "none"

\* Thread t waits for a lock another thread, or t itself, holds.
Blocked(t) == LockWanted(t) # "none" /\ LockHolder[LockWanted(t)] # 0

\* Thread t can take a step, or it waits for a lock whose holder is another
\* thread for which the same is true (k bounds the length of the chain).
RECURSIVE WillRun(_, _)
WillRun(t, k) ==
    IF Blocked(t)
    THEN LET h == LockHolder[LockWanted(t)]
         IN k > 0 /\ h # t /\ WillRun(h, k - 1)
    ELSE ENABLED ClientThread(t)

\* C27: no thread waits for a lock for ever: whenever a thread waits for a
\* lock, following the holders from it leads to a thread that is inside its
\* locked block and can take its next step.
C27_NoThreadWaitsForEver ==
    \A t \in Threads : Blocked(t) => WillRun(t, NThreads)

\* A thread waits for the rotation lock while its holder is inside a block of
\* the circuit breaker.
C27_Witness ==
    /\ pc[2] = "rot_lock"
    /\ clLock = 1
    /\ cbLock = 1

(* ------------------------------ C28 ------------------------------------ *)

\* C28: when two threads have each finished the same cacheable read of one
\* client, neither has an error and both have the same value.
C28_ConcurrentReadsAgree ==
    \A t1, t2 \in Threads :
       (pc[t1] = "done" /\ pc[t2] = "done"
          /\ loc[t1].method = "get_block_number"
          /\ loc[t2].method = "get_block_number") =>
          /\ loc[t1].exc = None
          /\ loc[t2].exc = None
          /\ loc[t1].ret = loc[t2].ret

(* ------------------------------ C29 ------------------------------------ *)

\* The sum of the values of a function of counts.
RECURSIVE Total(_)
Total(f) ==
    IF DOMAIN f = {}
    THEN 0
    ELSE LET x == CHOOSE y \in DOMAIN f : TRUE
         IN f[x] + Total([y \in DOMAIN f \ {x} |-> f[y]])

\* The decorated calls that are over: all that were begun, but those still
\* in progress.
Completed ==
    ncalls - Cardinality({t \in Threads : pc[t] \notin {"idle", "done"}})

\* C29: no update of the metrics is lost: the request counts that
\* get_metrics() reports add up to at least the number of decorated calls
\* that are over, whether they returned or raised, and no method has more
\* errors than requests.
C29_NoMetricsUpdateLost ==
    /\ Total(GetStats.requests) >= Completed
    /\ \A m \in Tracked : GetStats.errors[m] <= GetStats.requests[m]

\* The decorated calls of all threads are over, two of them at least of the
\* same method, one of which raised.
C29_Witness ==
    /\ ncalls >= 2
    /\ \A t \in Threads : pc[t] = "done"
    /\ \E m \in Tracked : error_count[m] = 1 /\ request_count[m] >= 2

(* ------------------------------ C30 ------------------------------------ *)

\* C30: every transport attempt is a request record of the metrics: when
\* the first public call of a client is over, get_metrics() reports as many
\* requests of its method as the call sent transport calls.
C30_OneRecordPerAttempt ==
    (pc[1] = "done" /\ ncalls = 1) =>
        GetStats.requests[loc[1].method] = loc[1].sent

(* ------------------------------ C31 ------------------------------------ *)

\* What get_stats() reports when nothing has been recorded.
ZeroStats ==
    [requests |-> [m \in Tracked |-> 0],
     errors |-> [m \in Tracked |-> 0],
     cache_hit_rate |-> [num |-> 0, den |-> 1],
     rpc_usage |-> [u \in Endpoints |-> 0],
     circuit_breaker_trips |-> 0]

\* Statistics no partly reset Metrics can show: every request counted is also
\* counted against an endpoint, and no method has more errors than requests.
Whole(stats) ==
    /\ Total(stats.requests) = Total(stats.rpc_usage)
    /\ \A m \in Tracked : stats.errors[m] <= stats.requests[m]

\* C31: reset() zeroes all counters in one atomic step: what a get_stats()
\* returns, whatever the other threads are doing, is never a partly reset
\* state, and when reset() returns, a get_stats() with no call in between
\* reports zero requests, zero errors, zero breaker trips and a hit ratio
\* of 0.
C31_ResetIsAtomic ==
    [][\A t \in Threads :
          /\ (pc[t] = "m_stats" /\ pc'[t] # "m_stats") =>
                Whole(loc'[t].stats)
          /\ (pc[t] = "m_reset_rest" /\ pc'[t] # "m_reset_rest") =>
                GetStats' = ZeroStats]_vars

\* A thread is half way through reset(), the requests zeroed and those
\* recorded against an endpoint still standing, while another thread is at
\* get_stats().
C31_Witness ==
    \E t, u \in Threads :
       /\ pc[t] = "m_reset_rest"
       /\ pc[u] = "m_stats"
       /\ Total(request_count) = 0
       /\ Total(rpc_usage) > 0

(* ------------------------------ C32 ------------------------------------ *)

\* C32: a public call with a malformed argument ends with ValidationError
\* before any network call: it has taken no token, made no attempt through
\* the retry wrapper, sent nothing and slept nowhere, and the cache, the
\* circuits and the active endpoint are as the call found them.
C32_MalformedInputIsRejectedFirst ==
    \A t \in Threads :
       (pc[t] = "done" /\ loc[t].malformed) =>
          /\ loc[t].exc = "ValidationError"
          /\ loc[t].taken = 0
          /\ loc[t].tries = 0
          /\ loc[t].sent = 0
          /\ loc[t].sleeps = <<>>
          /\ Before = loc[t].pre

(* ------------------------------ C33 ------------------------------------ *)

\* C33: health_check() returns without raising, its result has the key
\* block_number whenever its connected is True, and its status is 'healthy'
\* exactly when connected is True.
C33_HealthCheckIsConsistent ==
    \A t \in Threads :
       (pc[t] = "done" /\ loc[t].health.status # "None") =>
          /\ loc[t].exc = None
          /\ loc[t].health.connected => loc[t].health.block_number
          /\ loc[t].health.status = "healthy" <=> loc[t].health.connected

(* ------------------------------ C34 ------------------------------------ *)

\* The call of thread t is one that changes state or must be fresh: send_eth,
\* get_l1_fee, get_block with full_transactions, get_transaction_count of
\* 'pending'.
FreshnessCritical(t) ==
    \/ loc[t].method \in {"send_eth", "get_l1_fee"}
    \/ loc[t].method = "get_block" /\ loc[t].full
    \/ loc[t].method = "get_transaction_count" /\ ~loc[t].use_cache

\* C34: a call that changes state or must be fresh has, when it is over,
\* read the cache not once (no hit and no miss is recorded), written nothing
\* to it, and broadcast at most one transaction.
C34_WritesBypassCache ==
    \A t \in Threads :
       (pc[t] = "done" /\ FreshnessCritical(t)) =>
          /\ cache_hits = loc[t].h0
          /\ cache_misses = loc[t].m0
          /\ cache = loc[t].pre.cache
          /\ lastSet = loc[t].pre.lastSet
          /\ loc[t].broadcasts <= 1

(* ------------------------------ C35 ------------------------------------ *)

Waiting(t) ==
    pc[t] \in {"w_head", "gs_receipt", "gs_get", "w_status", "w_receipt",
               "w_failed", "w_sleep"}

\* The outcome of a wait_for_confirmation call that is over: a receipt is
\* returned only if it has status 1; the statuses "failed" and "not_found"
\* and a timeout end in TransactionError, and the timeout is raised only
\* once more than timeout seconds have passed.
WaitOutcome(t) ==
    /\ loc[t].exc \in {None, "TransactionError"}
    /\ loc[t].exc = None => loc[t].ret = "receipt" /\ loc[t].receipt = "status1"
    /\ loc[t].status \in {"failed", "not_found"} =>
          loc[t].exc = "TransactionError"
    /\ loc[t].cause = "timeout" =>
          now - loc[t].start_time > loc[t].timeout

\* C35: wait_for_confirmation terminates when the clock advances; it returns
\* a receipt only with status 1 and raises TransactionError on status 0, on
\* not found and on timeout; a transaction seen as pending is polled again
\* after poll_interval unless the timeout has passed.
C35_WaitTerminates ==
    /\ [](\A t \in Threads :
            (pc[t] = "done" /\ loc[t].method = "wait_for_confirmation") =>
               WaitOutcome(t))
    /\ [][\A t \in Threads :
            (pc[t] = "w_status" /\ pc'[t] # "w_status"
                /\ loc[t].status = "pending") =>
               /\ pc'[t] = "w_sleep"
               /\ loc'[t].exc = None]_vars
    /\ [][\A t \in Threads :
            (pc[t] = "w_sleep" /\ pc'[t] # "w_sleep") =>
               /\ pc'[t] = "w_head"
               /\ now' = now + loc[t].poll_interval]_vars
    /\ \A t \in Threads : Waiting(t) ~> pc[t] = "done"

C35_Witness ==
    \E t \in Threads :
       /\ pc[t] = "done"
       /\ loc[t].method = "wait_for_confirmation"
       /\ loc[t].polls >= 2
       /\ loc[t].cause = "timeout"

(* ------------------------------ C36 ------------------------------------ *)

\* C36: whenever no call is running, current_rpc_index is an index of
\* rpc_urls and names the endpoint self.w3 is connected to.
C36_IndexNamesConnectedEndpoint ==
    (\A t \in Threads : pc[t] \in {"idle", "done"}) =>
       /\ current_rpc_index \in Endpoints
       /\ current_rpc_index = w3

(* ------------------------------ C37 ------------------------------------ *)

\* C37: for every endpoint, a breaker that is open or half-open has a
\* failure count of at least the threshold.
C37_OpenImpliesThresholdReached ==
    \A u \in Endpoints :
       state[u] \in {"open", "half-open"} => Tripped(failure_count[u])

(* ------------------------------ C38 ------------------------------------ *)

\* C38: the steps of a call that is rejected with CircuitBreakerOpenError
\* leave state, failure_count and last_failure_time of every endpoint as
\* they are, and the rejection returns to the caller without reaching func
\* or the block that counts failures.
C38_RejectionChangesNothing ==
    [][\A t \in Threads :
         /\ (pc[t] \in {"cb_enter", "cb_admit"} /\ pc'[t] # pc[t]
               /\ pc'[t] # "cb_func") =>
               UNCHANGED <<state, failure_count, last_failure_time>>
         /\ (pc[t] = "cb_admit" /\ pc'[t] # "cb_admit"
               /\ loc'[t].exc = "CircuitBreakerOpenError") =>
               /\ pc'[t] = Head(stack[t])
               /\ pc'[t] \notin {"cb_func", "cb_ok", "cb_fail", "cb_success",
                                 "cb_failure"}]_vars

C38_Witness ==
    \E t \in Threads :
       /\ pc[t] = "done"
       /\ loc[t].exc = "CircuitBreakerOpenError"
       /\ state[loc[t].url] = "open"
       /\ now - last_failure_time[loc[t].url] = CIRCUIT_BREAKER_TIMEOUT

(* ------------------------------ C39 ------------------------------------ *)

\* C39: when a public call whose _rpc_call returned a result is over and no
\* other call is running, connection_attempts is 0.
C39_AttemptsCountConsecutiveFailures ==
    \A t \in Threads :
       (/\ pc[t] = "done"
        /\ loc[t].wrapped = "_rpc_call"
        /\ loc[t].exc = None
        /\ \A o \in Threads \ {t} : pc[o] = "idle") =>
          connection_attempts = 0

(* ------------------------------ C40 ------------------------------------ *)

\* C40: a value is written to the cache only by a call whose RPC call has
\* not failed: no thread is about to store a value while the error of its
\* RPC call is on record.
C40_OnlySuccessesAreCached ==
    \A t \in Threads :
       pc[t] = "cache_set" => loc[t].failure = None

=============================================================================
